---- MODULE Spec2Model ----
(***************************************************************************)
(* Swarky: drawing-archival pipeline.                                      *)
(*                                                                         *)
(* Three specifications over one state:                                    *)
(*   SpecGui  the GUI orchestrator of gui_main.py (SwarkyApp): the manual  *)
(*            worker, the watch workers, the run lock and the Tk main      *)
(*            thread;                                                      *)
(*   Spec     plotter arrivals reconciled one at a time by                 *)
(*            swarky_pipeline._process_candidate against the archive;      *)
(*   SpecRun  whole passes of swarky_pipeline.run_once: the plotter scan   *)
(*            and loop, then the ISS, FIV and HENG ingests.                *)
(***************************************************************************)
EXTENDS Integers, Sequences, FiniteSets, TLC

VARIABLES
  \* ---- gui_main.py, SwarkyApp ----
  run_lock,               \* self._run_lock is held (threading.Lock has no owner)
  run_in_progress,        \* self._run_in_progress
  run_error_notified,     \* self._run_error_notified
  scan_plotter_disabled,  \* self._scan_plotter_disabled
  after_q,                \* pending root.after(0, _after_batch/_after_watch_batch)
  main_pc,                \* the Tk main thread: "idle", or "joining" in stop_watch
  mpc,                    \* manual worker threads: position in _run_once_worker
  wpc,                    \* watch worker threads: position in _watch_worker
  wstop,                  \* the stop_event each watch worker was started with
  wint,                   \* the interval each watch worker was started with
  wticks,                 \* iterations left of a watch worker's sleep loop
  watch_thread,           \* self.watch_thread (0 is None)
  watch_stop_event,       \* self.watch_stop_event (0 is None)
  \* ---- the directories of Config ----
  fs,                     \* per directory and file name, the content stored there
  \* ---- what the last call of _process_candidate did ----
  last,
  narrived,               \* files delivered to the input directories so far
  \* ---- swarky_pipeline.py, run_once ----
  rpc,                    \* position of the pass: "idle", "loop", "iss", "fiv", "heng"
  candidates,             \* the scan of DIR_HPLOTTER, what is left of it to process
  clean,                  \* nothing was delivered since the pass in progress began
  settled,                \* a pass completed clean, and nothing was delivered since
  \* ---- the environment ----
  plm_down                \* PLM_DIR cannot be written: _copy_file into it raises

guiVars == <<run_lock, run_in_progress, run_error_notified, scan_plotter_disabled,
             after_q, main_pc, mpc, wpc, wstop, wint, wticks, watch_thread,
             watch_stop_event>>
runVars == <<rpc, candidates, clean, settled>>
fsVars == <<fs, last, narrived, runVars, plm_down>>
vars == <<guiVars, fsVars>>

(***************************************************************************)
(* Bounds                                                                  *)
(***************************************************************************)
MaxManual == 1      \* manual worker threads alive at once
MaxWatch == 1       \* watch worker threads alive at once
MaxInterval == 1    \* the watch interval, in sleep iterations
MaxAfter == 1       \* _after_batch callbacks waiting for the Tk main loop
MaxRev == 2         \* revisions 01..MaxRev (the code takes 00..99)
MaxArchived == 2    \* files found in the archive before the first delivery
MaxArrivals == 3    \* files delivered to the plotter directory in one behaviour
MaxHeng == 3        \* entries found in DIR_HENGELO

ManualIds == 1..MaxManual
WatchIds == 1..MaxWatch

(***************************************************************************)
(* gui_main.py: SwarkyApp                                                  *)
(***************************************************************************)
InitGui ==
  /\ run_lock = FALSE
  /\ run_in_progress = FALSE
  /\ run_error_notified = FALSE
  /\ scan_plotter_disabled = FALSE
  /\ after_q = 0
  /\ main_pc = "idle"
  /\ mpc = [t \in ManualIds |-> "dead"]
  /\ wpc = [w \in WatchIds |-> "dead"]
  /\ wstop = [w \in WatchIds |-> FALSE]
  /\ wint = [w \in WatchIds |-> 1]
  /\ wticks = [w \in WatchIds |-> 0]
  /\ watch_thread = 0
  /\ watch_stop_event = 0

\* Threads inside run_once(self.cfg).
ManualRunning == {t \in ManualIds : mpc[t] = "run"}
WatchRunning == {w \in WatchIds : wpc[w] = "run"}

\* run_once_thread: the Swarky button, and _scheduled_run. Runs on the Tk main thread.
run_once_thread ==
  /\ main_pc = "idle"
  /\ IF run_in_progress
       THEN UNCHANGED <<run_in_progress, mpc>>
       ELSE \E t \in ManualIds :
              /\ mpc[t] = "dead"
              /\ run_in_progress' = TRUE
              /\ mpc' = [mpc EXCEPT ![t] = "try"]
  /\ UNCHANGED <<run_lock, run_error_notified, scan_plotter_disabled, after_q, main_pc,
                 wpc, wstop, wint, wticks, watch_thread, watch_stop_event>>

\* _run_once_worker, line 446: self._run_lock.acquire(blocking=False).
\* A failed acquire returns, which enters the finally block.
M_TryAcquire(t) ==
  /\ mpc[t] = "try"
  /\ IF run_lock
       THEN /\ mpc' = [mpc EXCEPT ![t] = "fin"]
            /\ UNCHANGED run_lock
       ELSE /\ run_lock' = TRUE
            /\ mpc' = [mpc EXCEPT ![t] = "locked"]
  /\ UNCHANGED <<run_in_progress, run_error_notified, scan_plotter_disabled, after_q,
                 main_pc, wpc, wstop, wint, wticks, watch_thread, watch_stop_event>>

\* _run_once_worker, lines 451-460: disable the plotter scans, enter run_once.
M_EnterRunOnce(t) ==
  /\ mpc[t] = "locked"
  /\ scan_plotter_disabled' = TRUE
  /\ mpc' = [mpc EXCEPT ![t] = "run"]
  /\ UNCHANGED <<run_lock, run_in_progress, run_error_notified, after_q, main_pc,
                 wpc, wstop, wint, wticks, watch_thread, watch_stop_event>>

\* _run_once_worker, lines 460-474: run_once returns, or raises into the except clause.
M_LeaveRunOnce(t) ==
  /\ mpc[t] = "run"
  /\ \E raised \in BOOLEAN :
       run_error_notified' = (run_error_notified \/ raised)
  /\ mpc' = [mpc EXCEPT ![t] = "fin"]
  /\ UNCHANGED <<run_lock, run_in_progress, scan_plotter_disabled, after_q, main_pc,
                 wpc, wstop, wint, wticks, watch_thread, watch_stop_event>>

\* _run_once_worker, line 477: `if self._run_lock.locked():`, on every path into finally.
M_FinallyLocked(t) ==
  /\ mpc[t] = "fin"
  /\ mpc' = [mpc EXCEPT ![t] = IF run_lock THEN "fin_release" ELSE "fin_flag"]
  /\ UNCHANGED <<run_lock, run_in_progress, run_error_notified, scan_plotter_disabled,
                 after_q, main_pc, wpc, wstop, wint, wticks, watch_thread,
                 watch_stop_event>>

\* _run_once_worker, lines 478-481: release() of a Lock any thread may release;
\* on an unlocked Lock it raises RuntimeError, which is swallowed.
M_FinallyRelease(t) ==
  /\ mpc[t] = "fin_release"
  /\ run_lock' = FALSE
  /\ mpc' = [mpc EXCEPT ![t] = "fin_flag"]
  /\ UNCHANGED <<run_in_progress, run_error_notified, scan_plotter_disabled, after_q,
                 main_pc, wpc, wstop, wint, wticks, watch_thread, watch_stop_event>>

\* _run_once_worker, line 482: self._run_in_progress = False.
M_FinallyFlag(t) ==
  /\ mpc[t] = "fin_flag"
  /\ run_in_progress' = FALSE
  /\ mpc' = [mpc EXCEPT ![t] = "fin_after"]
  /\ UNCHANGED <<run_lock, run_error_notified, scan_plotter_disabled, after_q, main_pc,
                 wpc, wstop, wint, wticks, watch_thread, watch_stop_event>>

\* _run_once_worker, line 494: self.root.after(0, _after_batch); the thread ends.
M_FinallyAfter(t) ==
  /\ mpc[t] = "fin_after"
  /\ after_q < MaxAfter
  /\ after_q' = after_q + 1
  /\ mpc' = [mpc EXCEPT ![t] = "dead"]
  /\ UNCHANGED <<run_lock, run_in_progress, run_error_notified, scan_plotter_disabled,
                 main_pc, wpc, wstop, wint, wticks, watch_thread, watch_stop_event>>

\* _after_batch / _after_watch_batch, on the Tk main thread: re-enable the scans.
after_batch ==
  /\ main_pc = "idle"
  /\ after_q > 0
  /\ after_q' = after_q - 1
  /\ scan_plotter_disabled' = FALSE
  /\ UNCHANGED <<run_lock, run_in_progress, run_error_notified, main_pc, mpc,
                 wpc, wstop, wint, wticks, watch_thread, watch_stop_event>>

\* start_watch, lines 588-600, on the Tk main thread; Ids are the identities the
\* new thread may get.
start_watch_among(Ids) ==
  /\ main_pc = "idle"
  /\ IF watch_thread # 0 /\ wpc[watch_thread] # "dead"
       THEN UNCHANGED <<wpc, wstop, wint, wticks, watch_thread, watch_stop_event>>
       ELSE \E w \in Ids, interval \in 1..MaxInterval :
              /\ wpc[w] = "dead"
              /\ wstop' = [wstop EXCEPT ![w] = FALSE]
              /\ wint' = [wint EXCEPT ![w] = interval]
              /\ wticks' = [wticks EXCEPT ![w] = 0]
              /\ wpc' = [wpc EXCEPT ![w] = "head"]
              /\ watch_thread' = w
              /\ watch_stop_event' = w
  /\ UNCHANGED <<run_lock, run_in_progress, run_error_notified, scan_plotter_disabled,
                 after_q, main_pc, mpc>>

\* start_watch, on the Tk main thread.
start_watch == start_watch_among(WatchIds)

\* stop_watch, lines 603-606: set the event, then join(timeout=2).
stop_watch_set ==
  /\ main_pc = "idle"
  /\ wstop' = IF watch_stop_event # 0
                THEN [wstop EXCEPT ![watch_stop_event] = TRUE]
                ELSE wstop
  /\ main_pc' = "joining"
  /\ UNCHANGED <<run_lock, run_in_progress, run_error_notified, scan_plotter_disabled,
                 after_q, mpc, wpc, wint, wticks, watch_thread, watch_stop_event>>

\* stop_watch, lines 606-608: join returns, when the thread has ended or after 2 s.
stop_watch_joined ==
  /\ main_pc = "joining"
  /\ main_pc' = "idle"
  /\ watch_thread' = 0
  /\ watch_stop_event' = 0
  /\ UNCHANGED <<run_lock, run_in_progress, run_error_notified, scan_plotter_disabled,
                 after_q, mpc, wpc, wstop, wint, wticks>>

W_Head_ignoring_stop(w) ==
  /\ wpc[w] = "head"
  /\ wpc' = [wpc EXCEPT ![w] = "try"]
  /\ UNCHANGED <<run_lock, run_in_progress, run_error_notified, scan_plotter_disabled,
                 after_q, main_pc, mpc, wstop, wint, wticks, watch_thread,
                 watch_stop_event>>

\* _watch_worker, line 541: while not stop_event.is_set().
W_Head(w) ==
  /\ wpc[w] = "head"
  /\ wpc' = [wpc EXCEPT ![w] = IF wstop[w] THEN "dead" ELSE "try"]
  /\ UNCHANGED <<run_lock, run_in_progress, run_error_notified, scan_plotter_disabled,
                 after_q, main_pc, mpc, wstop, wint, wticks, watch_thread,
                 watch_stop_event>>

\* _watch_worker, lines 543-545: a failed acquire is `pass`, straight to the sleep.
W_TryAcquire(w) ==
  /\ wpc[w] = "try"
  /\ IF run_lock
       THEN /\ wpc' = [wpc EXCEPT ![w] = "sleep"]
            /\ wticks' = [wticks EXCEPT ![w] = wint[w]]
            /\ UNCHANGED run_lock
       ELSE /\ run_lock' = TRUE
            /\ wpc' = [wpc EXCEPT ![w] = "locked"]
            /\ UNCHANGED wticks
  /\ UNCHANGED <<run_in_progress, run_error_notified, scan_plotter_disabled, after_q,
                 main_pc, mpc, wstop, wint, watch_thread, watch_stop_event>>

\* _watch_worker, lines 548-556.
W_EnterRunOnce(w) ==
  /\ wpc[w] = "locked"
  /\ scan_plotter_disabled' = TRUE
  /\ wpc' = [wpc EXCEPT ![w] = "run"]
  /\ UNCHANGED <<run_lock, run_in_progress, run_error_notified, after_q, main_pc,
                 mpc, wstop, wint, wticks, watch_thread, watch_stop_event>>

\* _watch_worker, lines 556-580: run_once returns, or raises (the outer except
\* clause notifies once; the inner finally runs on both paths).
W_LeaveRunOnce(w) ==
  /\ wpc[w] = "run"
  /\ \E raised \in BOOLEAN :
       run_error_notified' = (run_error_notified \/ raised)
  /\ wpc' = [wpc EXCEPT ![w] = "fin_release"]
  /\ UNCHANGED <<run_lock, run_in_progress, scan_plotter_disabled, after_q, main_pc,
                 mpc, wstop, wint, wticks, watch_thread, watch_stop_event>>

\* _watch_worker, lines 561-564: release(), RuntimeError swallowed.
W_FinallyRelease(w) ==
  /\ wpc[w] = "fin_release"
  /\ run_lock' = FALSE
  /\ wpc' = [wpc EXCEPT ![w] = "fin_after"]
  /\ UNCHANGED <<run_in_progress, run_error_notified, scan_plotter_disabled, after_q,
                 main_pc, mpc, wstop, wint, wticks, watch_thread, watch_stop_event>>

\* _watch_worker, line 571: self.root.after(0, _after_watch_batch).
W_FinallyAfter(w) ==
  /\ wpc[w] = "fin_after"
  /\ after_q < MaxAfter
  /\ after_q' = after_q + 1
  /\ wpc' = [wpc EXCEPT ![w] = "sleep"]
  /\ wticks' = [wticks EXCEPT ![w] = wint[w]]
  /\ UNCHANGED <<run_lock, run_in_progress, run_error_notified, scan_plotter_disabled,
                 main_pc, mpc, wstop, wint, watch_thread, watch_stop_event>>

\* _watch_worker, lines 583-586: one iteration of the sleep loop; wticks is what
\* is left of range(interval), and a break leaves it as it is.
W_Sleep(w) ==
  /\ wpc[w] = "sleep"
  /\ IF wticks[w] = 0 \/ wstop[w]
       THEN /\ wpc' = [wpc EXCEPT ![w] = "head"]
            /\ UNCHANGED wticks
       ELSE /\ wticks' = [wticks EXCEPT ![w] = wticks[w] - 1]
            /\ UNCHANGED wpc
  /\ UNCHANGED <<run_lock, run_in_progress, run_error_notified, scan_plotter_disabled,
                 after_q, main_pc, mpc, wstop, wint, watch_thread, watch_stop_event>>

(***************************************************************************)
(* File names                                                              *)
(*                                                                         *)
(* A name is what BASE_NAME (swarky_core.py:63) sees of it: whether it     *)
(* matches, and the groups it captures. Letters are taken as already       *)
(* upper-case, the extension as already lower-case.                        *)
(***************************************************************************)
Docs == {<<"1", "2", "3", "4", "5", "6">>}
Metrics == {"M", "I", "D", "N"}

\* re, iss1, iss2: the name, up to its extension, has the shape BASE_NAME,
\* ISS_BASENAME, ISS_BASENAME_2 asks for; fmt, loc, doc are its first characters.
\* lc: the directory entry is spelled in the other letter case (dam...m.TIF beside
\* DAM...M.tif, two entries of a case-sensitive volume); the groups and ext are
\* what the case-insensitive patterns and .lower() make of either spelling.
StdNames ==
  [re : {TRUE}, iss1 : {FALSE}, iss2 : {FALSE}, fmt : {"A"}, loc : {"M"}, doc : Docs,
   rev : 1..MaxRev, sheet : {1}, met : Metrics, ext : {"tif"}, lc : {FALSE}]

FirstName == [re |-> TRUE, iss1 |-> FALSE, iss2 |-> FALSE, fmt |-> "A", loc |-> "M",
              doc |-> <<"1", "2", "3", "4", "5", "6">>, rev |-> 1, sheet |-> 1,
              met |-> "M", ext |-> "tif", lc |-> FALSE]
BadFormat == [FirstName EXCEPT !.fmt = "Z"]
BadLocation == [FirstName EXCEPT !.loc = "X"]
BadMetric == [FirstName EXCEPT !.met = "X"]
BadRegex == [FirstName EXCEPT !.re = FALSE]
\* a PDF (ACCEPT_PDF, swarky_core.py:31) with the stem of a TIFF of StdNames
PdfTwin == [FirstName EXCEPT !.rev = MaxRev, !.ext = "pdf"]

\* The names the plotter delivers.
PlotNames == StdNames \cup {BadFormat, BadLocation, BadMetric, BadRegex, PdfTwin}

\* PDF names of the ISS folder: G....ISSRxxSxx.pdf (which ISS_BASENAME_2 matches
\* too), <docno>RxxSxx.pdf, a BASE_NAME pdf, and one that matches nothing.
IssClassic == [FirstName EXCEPT !.re = FALSE, !.iss1 = TRUE, !.iss2 = TRUE, !.fmt = "G",
                                !.doc = <<"2", "0", "2", "4", "0", "0">>, !.ext = "pdf"]
IssMark == [IssClassic EXCEPT !.iss1 = FALSE, !.fmt = "2"]
IssStd == [FirstName EXCEPT !.ext = "pdf"]
IssBad == [BadRegex EXCEPT !.ext = "pdf"]

Drawings == PlotNames \cup {IssClassic, IssMark, IssStd, IssBad}

\* <stem>.DESEDI
DESEDI(n) == [n EXCEPT !.ext = "desedi"]

Names == Drawings \cup {DESEDI(n) : n \in Drawings}

ERROR_DIR_is_PLM_DIR == "plm"

\* swarky_core.py:18-23, the directories of Config the pipeline works on.
DIR_HPLOTTER == "hplotter"
ARCHIVIO_DISEGNI == "archivio"
ERROR_DIR == "error_dir"
PARI_REV_DIR == "pari_rev"
PLM_DIR == "plm"
ARCHIVIO_STORICO == "storico"
DIR_ISS == "iss"
DIR_FIV_LOADING == "fiv"
DIR_HENGELO == "heng"
Dirs == {DIR_HPLOTTER, ARCHIVIO_DISEGNI, ERROR_DIR, PARI_REV_DIR, PLM_DIR, ARCHIVIO_STORICO,
         DIR_ISS, DIR_FIV_LOADING, DIR_HENGELO}

\* A content is the serial number of the delivery that brought the file, negated
\* when its TIFF header says width <= height; OldContent and OldStorico are files
\* that were in the archive and in the historical tree before the first delivery.
\* A directory gives each of its file names the content stored under it.
OldContent == MaxArrivals + 1
OldStorico == MaxArrivals + 2
EdiBody == MaxArrivals + 3    \* the lines write_edi writes
EmptyDir == [n \in {} |-> 0]
Files(d) == DOMAIN d

\* The content of d/n, 0 when there is no such file.
At(d, n) == IF n \in DOMAIN d THEN d[n] ELSE 0

\* d with content c under name n; d without the names of S.
put(d, n, c) == [a \in DOMAIN d \cup {n} |-> IF a = n THEN c ELSE d[a]]
del(d, S) == [a \in DOMAIN d \ S |-> d[a]]

plotter == fs[DIR_HPLOTTER]
archive == fs[ARCHIVIO_DISEGNI]
storico == fs[ARCHIVIO_STORICO]
error_dir == fs[ERROR_DIR]
pari_rev == fs[PARI_REV_DIR]
plm == fs[PLM_DIR]

\* swarky_core.py:155-158, _copy_file(src_dir/n, dst_dir/n): shutil.copy2 creates the
\* destination or replaces its content.
copy_file(f, src_dir, n, dst_dir) ==
  [f EXCEPT ![dst_dir] = put(f[dst_dir], n, f[src_dir][n])]

move_to_unlink_only(f, src_dir, n, dst_dir) == [f EXCEPT ![src_dir] = del(f[src_dir], {n})]

\* swarky_core.py:166-174, move_to(src_dir/n, dst_dir): copy, then unlink the source.
move_to(f, src_dir, n, dst_dir) ==
  [d \in Dirs |->
     IF d = dst_dir THEN put(f[d], n, f[src_dir][n])
     ELSE IF d = src_dir THEN del(f[d], {n})
     ELSE f[d]]

\* move_to applied to each name of S, one after the other.
move_each(f, src_dir, S, dst_dir) ==
  [d \in Dirs |->
     IF d = dst_dir
       THEN [a \in DOMAIN f[d] \cup S |-> IF a \in S THEN f[src_dir][a] ELSE f[d][a]]
     ELSE IF d = src_dir THEN del(f[d], S)
     ELSE f[d]]

\* swarky_core.py:63-65, the patterns, as fullmatch(name).
BASE_NAME(n) == n.re /\ n.ext \in {"tif", "pdf"}
ISS_BASENAME(n) == n.iss1 /\ n.ext = "pdf"
ISS_BASENAME_2(n) == n.iss2 /\ n.ext = "pdf"

\* swarky_core.py:67-68.
docno_from_match(n) == <<n.fmt, n.loc, n.doc>>

\* swarky_core.py:203-215.
LOCATION_MAP(key) ==
  CASE key = <<"M", "*">> -> <<"costruttivi", "Costruttivi", "m", "DETAIL", "Italian">>
    [] key = <<"K", "*">> -> <<"bozzetti", "Bozzetti", "k", "Customer Drawings", "English">>
    [] key = <<"F", "*">> -> <<"fornitori", "Fornitori", "f", "Vendor Supplied Data", "English">>
    [] key = <<"T", "*">> -> <<"tenute_meccaniche", "T_meccaniche", "t", "Customer Drawings", "English">>
    [] key = <<"E", "*">> -> <<"sezioni", "Sezioni", "s", "Customer Drawings", "English">>
    [] key = <<"S", "*">> -> <<"sezioni", "Sezioni", "s", "Customer Drawings", "English">>
    [] key = <<"N", "*">> -> <<"marcianise", "Marcianise", "n", "DETAIL", "Italian">>
    [] key = <<"P", "*">> -> <<"preventivi", "Preventivi", "p", "Customer Drawings", "English">>
    [] key = <<"*", "4">> -> <<"pID_ELETTRICI", "Pid_Elettrici", "m", "Customer Drawings", "Italian">>
    [] key = <<"*", "5">> -> <<"piping", "Piping", "m", "Customer Drawings", "Italian">>
    [] OTHER -> <<>>
DEFAULT_LOCATION == <<"unknown", "Unknown", "m", "Customer Drawings", "English">>

\* swarky_core.py:217-232: (l2, first), then ("*", first), then (l2, "*"), then the default.
map_location(n) ==
  LET first == n.doc[1]
      l2 == n.loc
      loc == IF LOCATION_MAP(<<l2, first>>) # <<>> THEN LOCATION_MAP(<<l2, first>>)
             ELSE IF LOCATION_MAP(<<"*", first>>) # <<>> THEN LOCATION_MAP(<<"*", first>>)
             ELSE IF LOCATION_MAP(<<l2, "*">>) # <<>> THEN LOCATION_MAP(<<l2, "*">>)
             ELSE DEFAULT_LOCATION
  IN [folder |-> loc[1], log_name |-> loc[2], subloc |-> loc[3], doctype |-> loc[4],
      lang |-> loc[5], dir_tif_loc |-> <<loc[1], n.fmt, loc[3]>>]

\* swarky_logic.py:70-83, the map_location gui.py imports: (l2, first), then
\* (l2, "*"), then ("*", first), then the default.
logic_map_location(n) ==
  LET first == n.doc[1]
      l2 == n.loc
      loc == IF LOCATION_MAP(<<l2, first>>) # <<>> THEN LOCATION_MAP(<<l2, first>>)
             ELSE IF LOCATION_MAP(<<l2, "*">>) # <<>> THEN LOCATION_MAP(<<l2, "*">>)
             ELSE IF LOCATION_MAP(<<"*", first>>) # <<>> THEN LOCATION_MAP(<<"*", first>>)
             ELSE DEFAULT_LOCATION
  IN [folder |-> loc[1], log_name |-> loc[2], subloc |-> loc[3], doctype |-> loc[4],
      lang |-> loc[5], dir_tif_loc |-> <<loc[1], n.fmt, loc[3]>>]

\* swarky_core.py:79-91: the names of the directory that start with the docno
\* and end in .tif/.pdf, those BASE_NAME matches.
list_same_doc_prefisso(arch, n) ==
  {a \in Files(arch) :
     /\ map_location(a).dir_tif_loc = map_location(n).dir_tif_loc
     /\ docno_from_match(a) = docno_from_match(n)
     /\ a.ext \in {"tif", "pdf"}
     /\ BASE_NAME(a)}

list_nonstandard_none(arch, n) == {}

\* swarky_core.py:93-98: the same listing, the names BASE_NAME does not match.
list_nonstandard_same_doc(arch, n) ==
  {a \in Files(arch) :
     /\ map_location(a).dir_tif_loc = map_location(n).dir_tif_loc
     /\ docno_from_match(a) = docno_from_match(n)
     /\ a.ext \in {"tif", "pdf"}
     /\ ~BASE_NAME(a)}

check_orientation_always_ok(n, c) == TRUE

\* swarky_core.py:296-303: a .pdf, or a TIFF whose header does not say width <= height.
check_orientation_ok(n, c) == n.ext = "pdf" \/ c > 0

(***************************************************************************)
(* swarky_pipeline.py: _process_candidate                                  *)
(***************************************************************************)
MI == {"M", "I"}
DN == {"D", "N"}

\* swarky_pipeline.py:100.
new_group(n) == IF n.met \in MI THEN "MI" ELSE "DN"

\* swarky_pipeline.py:113-114.
same_sheet(arch, n) == {a \in list_same_doc_prefisso(arch, n) : a.sheet = n.sheet}

\* swarky_pipeline.py:124-126.
same_sheet_mi(arch, n) == {a \in same_sheet(arch, n) : a.met \in MI}
same_sheet_dn(arch, n) == {a \in same_sheet(arch, n) : a.met \in DN}
same_sheet_same_metric(arch, n) == {a \in same_sheet(arch, n) : a.met = n.met}

\* swarky_pipeline.py:128-129, on a list that is not empty (None otherwise).
max_rev(entries) == CHOOSE r \in {a.rev : a \in entries} : \A a \in entries : a.rev <= r

other_entries_own_group(arch, n) ==
  IF new_group(n) = "MI" THEN same_sheet_mi(arch, n) ELSE same_sheet_dn(arch, n)

\* swarky_pipeline.py:136.
other_entries(arch, n) ==
  IF new_group(n) = "MI" THEN same_sheet_dn(arch, n) ELSE same_sheet_mi(arch, n)

same_rev_dn_none(arch, n) == {a \in same_sheet_dn(arch, n) : FALSE}

\* swarky_pipeline.py:152-153.
same_rev_mi(arch, n) == {a \in same_sheet_mi(arch, n) : a.rev = n.rev}
same_rev_dn(arch, n) == {a \in same_sheet_dn(arch, n) : a.rev = n.rev}

\* swarky_pipeline.py:161: the archived files of the other M/I metric at this revision.
other_mi(arch, n) == {a \in same_rev_mi(arch, n) : a.met # n.met}

other_dn_none(arch, n) == {a \in same_rev_dn(arch, n) : FALSE}

\* swarky_pipeline.py:170: the archived files of the other D/N metric at this revision.
other_dn(arch, n) == {a \in same_rev_dn(arch, n) : a.met # n.met}

pari_revisione_never(arch, n) == FALSE

\* swarky_pipeline.py:116-118: the same file name at the same revision is archived.
pari_revisione(arch, n) == \E a \in same_sheet(arch, n) : a = n /\ a.rev = n.rev

\* A reference name of a record: none, or one of the names a `next(...)` or a
\* `[0]` may pick, which depends on the order the directory is listed in.
NoRef == {{}}
RefsOf(S) == {{a} : a \in S}

Anomaly(n, text, ref) == [kind |-> "anomaly", name |-> n, text |-> text, ref |-> ref]
Processed_as_anomaly(n, text, ref) ==
  [kind |-> "anomaly", name |-> n, text |-> text, ref |-> ref]
Processed(n, text, ref) == [kind |-> "processed", name |-> n, text |-> text, ref |-> ref]

Reject(reason, refs) == [out |-> "REJECTED", reason |-> reason, refs |-> refs, info |-> NoRef]

\* swarky_pipeline.py:68-174: the decision, down to the acceptance.
Verdict(arch, n, c) ==
  LET other == other_entries(arch, n)
      own == same_sheet_same_metric(arch, n)
  IN
  IF ~check_orientation_ok(n, c) THEN Reject("Immagine Girata", NoRef)
  ELSE IF ~BASE_NAME(n) THEN Reject("Nome File Errato", NoRef)
  ELSE IF n.fmt \notin {"A", "B", "C", "D", "E"} THEN Reject("Formato Errato", NoRef)
  ELSE IF n.loc \notin {"M", "K", "F", "T", "E", "S", "N", "P"}
    THEN Reject("Location Errata", NoRef)
  ELSE IF n.met \notin {"M", "I", "D", "N"} THEN Reject("Metrica Errata", NoRef)
  ELSE IF pari_revisione(arch, n)
    THEN [out |-> "DUPLICATE", reason |-> "Pari Revisione", refs |-> NoRef, info |-> NoRef]
  ELSE IF other # {} /\ n.rev < max_rev(other)
    THEN Reject("Revisione Precendente", RefsOf({a \in other : a.rev = max_rev(other)}))
  ELSE IF own # {} /\ n.rev < max_rev(own)
    THEN Reject("Revisione Precendente", RefsOf({a \in own : a.rev = max_rev(own)}))
  ELSE IF new_group(n) = "MI" /\ same_rev_dn(arch, n) # {}
    THEN Reject("Conflitto Metrica (DN a pari revisione)", RefsOf(same_rev_dn(arch, n)))
  ELSE IF new_group(n) = "MI"
    THEN [out |-> "ACCEPTED", reason |-> "", refs |-> NoRef,
          info |-> IF other_mi(arch, n) = {} THEN NoRef ELSE RefsOf(other_mi(arch, n))]
  ELSE IF same_rev_mi(arch, n) # {}
    THEN Reject("Conflitto Metrica (MI a pari revisione)", RefsOf(same_rev_mi(arch, n)))
  ELSE IF other_dn(arch, n) # {}
    THEN Reject("Conflitto Metrica (D/N a pari revisione)", RefsOf(other_dn(arch, n)))
  ELSE [out |-> "ACCEPTED", reason |-> "", refs |-> NoRef, info |-> NoRef]

to_storico_same_none(arch, n) == {a \in same_sheet_same_metric(arch, n) : FALSE}

\* swarky_pipeline.py:204-213, from the lists read before the new file was archived.
to_storico_same(arch, n) ==
  LET own == same_sheet_same_metric(arch, n)
  IN IF own = {} \/ n.rev > max_rev(own) THEN {a \in own : a.rev < n.rev} ELSE {}

to_storico_other_none(arch, n) == {}

\* swarky_pipeline.py:210-213.
to_storico_other(arch, n) ==
  LET other == other_entries(arch, n)
  IN IF other # {} /\ n.rev > max_rev(other) THEN {a \in other : a.rev < n.rev} ELSE {}

storico_refuses_never(sto, e) == FALSE

\* swarky_core.py:176-183: move_to_storico_safe refuses, (False, 0), when dst exists.
storico_refuses(sto, e) == e \in DOMAIN sto

write_edi_overwriting(f, n, out_dir) ==
  [f EXCEPT ![out_dir] = put(f[out_dir], DESEDI(n), EdiBody)]

\* swarky_core.py:401-413: write_edi(file_name, out_dir, *, ...) takes two positional
\* arguments; swarky_pipeline.py:260 calls write_edi(cfg, name, cfg.PLM_DIR, m=m, loc=loc).
WriteEdiPositionalParams == 2
PipelineWriteEdiPositionalArgs == 3

\* swarky_core.py:415-417 and 464-475: the sidecar <stem>.DESEDI is written into
\* out_dir unless a file of that name is there.
write_edi(f, n, out_dir) ==
  IF DESEDI(n) \in DOMAIN f[out_dir] THEN f
  ELSE [f EXCEPT ![out_dir] = put(f[out_dir], DESEDI(n), EdiBody)]

\* swarky_pipeline.py:258-262: the call binds its arguments first; a call with more
\* positional arguments than parameters raises TypeError, which line 261 catches.
pipeline_write_edi(f, n) ==
  IF PipelineWriteEdiPositionalArgs > WriteEdiPositionalParams THEN f
  ELSE write_edi(f, n, PLM_DIR)

plm_copy_or_rollback(f, n, flt) ==
  IF flt = "plm" THEN fs ELSE copy_file(f, ARCHIVIO_DISEGNI, n, PLM_DIR)

\* swarky_pipeline.py:252-256: _copy_file(new_path, PLM_DIR/name) in a try block
\* whose except clause logs the failure and goes on.
plm_copy(f, n, flt) ==
  IF flt = "plm" THEN f ELSE copy_file(f, ARCHIVIO_DISEGNI, n, PLM_DIR)

NoEvents == [pre |-> {}, legacy |-> {}, same |-> {}, other |-> {}, final |-> {}]
Faults == {"none", "move", "storico", "plm"}

\* swarky_pipeline.py:47-269: one call of _process_candidate(p, cfg), p = DIR_HPLOTTER/n.
\*   flt   the filesystem operation that fails in this call: the move of the
\*         candidate itself, the copies into the historical tree, the PLM copy;
\*   ref, iref  the reference names the directory order picks.
process_candidate(n, flt, ref, iref) ==
  \E c \in {At(plotter, n)} :
  \E v \in {Verdict(archive, n, c)} :
  \E legacy \in {list_nonstandard_same_doc(archive, n)},
     same \in {to_storico_same(archive, n)},
     other \in {to_storico_other(archive, n)} :
  \E refused \in {{e \in legacy \cup same \cup other : storico_refuses(storico, e)}} :
  \E moved \in {IF flt = "storico" THEN {} ELSE (legacy \cup same \cup other) \ refused} :
  \E pre \in {IF v.out = "ACCEPTED"
                THEN IF iref = {} THEN {} ELSE {Processed(n, "Metrica Diversa", iref)}
                ELSE {Anomaly(n, v.reason, ref)}} :
  LET hist(S, text) == {Processed(n, text, {e}) : e \in S \cap moved}
                         \cup {Anomaly(e, "Presente in Storico", {}) : e \in S \cap refused}
  IN
  /\ c # 0
  /\ ref \in v.refs
  /\ iref \in v.info
  /\ IF flt = "move"
       THEN \* move_to raises: line 267 catches it, the candidate stays where it is
            /\ last' = [name |-> {n}, id |-> c, out |-> "FAILED", flt |-> flt,
                        ev |-> [NoEvents EXCEPT !.pre = pre]]
            /\ UNCHANGED fs
       ELSE
         CASE v.out = "REJECTED" ->
                /\ last' = [name |-> {n}, id |-> c, out |-> "REJECTED", flt |-> flt,
                            ev |-> [NoEvents EXCEPT !.pre = pre]]
                /\ fs' = move_to(fs, DIR_HPLOTTER, n, ERROR_DIR)
           [] v.out = "DUPLICATE" ->
                /\ last' = [name |-> {n}, id |-> c, out |-> "DUPLICATE", flt |-> flt,
                            ev |-> [NoEvents EXCEPT !.pre = pre]]
                /\ fs' = move_to(fs, DIR_HPLOTTER, n, PARI_REV_DIR)
           [] v.out = "ACCEPTED" ->
                \* line 178, the new file; 183-249, the superseded ones; 254, the PLM copy
                /\ \E f1 \in {move_to(fs, DIR_HPLOTTER, n, ARCHIVIO_DISEGNI)} :
                   \E f2 \in {move_each(f1, ARCHIVIO_DISEGNI, moved, ARCHIVIO_STORICO)} :
                   \E f3 \in {move_each(f2, ARCHIVIO_DISEGNI, refused, ERROR_DIR)} :
                   \E f4 \in {plm_copy(f3, n, flt)} :
                     fs' = pipeline_write_edi(f4, n)
                /\ last' = [name |-> {n}, id |-> c, out |-> "ACCEPTED", flt |-> flt,
                            ev |-> [pre |-> pre,
                                    legacy |-> hist(legacy, "Legacy non standard"),
                                    same |-> hist(same, "Rev superata"),
                                    other |-> hist(other, "Rev superata"),
                                    final |-> {Processed(n, "Archiviato", {})}]]

(***************************************************************************)
(* Spec: files arrive in the plotter directory and are processed one at a  *)
(* time, from empty directories.                                           *)
(***************************************************************************)
NoCall == [name |-> {}, id |-> 0, out |-> "NONE", flt |-> "none", ev |-> NoEvents]

InitFs ==
  /\ fs = [d \in Dirs |-> EmptyDir]
  /\ last = NoCall
  /\ narrived = 0
  /\ rpc = "idle"
  /\ candidates = {}
  /\ clean = FALSE
  /\ settled = FALSE
  /\ plm_down = FALSE

Init == InitGui /\ InitFs

\* The files the plotter delivers: every name upright, and one TIFF turned
\* (its header says width <= height).
TurnedPlot == [name |-> FirstName, turned |-> TRUE]
Plots == {[name |-> n, turned |-> FALSE] : n \in PlotNames} \cup {TurnedPlot}

\* A plot lands in DIR_HPLOTTER.
Arrive ==
  /\ Files(plotter) = {}
  /\ narrived < MaxArrivals
  /\ \E f \in Plots :
       fs' = [fs EXCEPT ![DIR_HPLOTTER] =
                put(plotter, f.name, IF f.turned THEN 0 - (narrived + 1) ELSE narrived + 1)]
  /\ narrived' = narrived + 1
  /\ clean' = FALSE
  /\ settled' = FALSE
  /\ UNCHANGED <<last, rpc, candidates, plm_down>>
  /\ UNCHANGED guiVars

\* What fails in a call of _process_candidate made now.
FaultNow == IF plm_down THEN "plm" ELSE "none"

ProcessCandidate ==
  /\ \E n \in Files(plotter) :
       \E v \in {Verdict(archive, n, At(plotter, n))} :
         \E ref \in v.refs, iref \in v.info :
           process_candidate(n, FaultNow, ref, iref)
  /\ UNCHANGED <<narrived, runVars, plm_down>>
  /\ UNCHANGED guiVars

Next == Arrive \/ ProcessCandidate

Spec == Init /\ [][Next]_vars

(***************************************************************************)
(* SpecFault: the same, begun while PLM_DIR cannot be written; the outage  *)
(* ends at some moment and does not come back.                             *)
(***************************************************************************)
InitDown ==
  /\ InitGui
  /\ fs = [d \in Dirs |-> EmptyDir]
  /\ last = NoCall
  /\ narrived = 0
  /\ rpc = "idle"
  /\ candidates = {}
  /\ clean = FALSE
  /\ settled = FALSE
  /\ plm_down = TRUE

PlmRepaired ==
  /\ plm_down
  /\ plm_down' = FALSE
  /\ UNCHANGED <<fs, last, narrived, runVars>>
  /\ UNCHANGED guiVars

NextFault == Arrive \/ ProcessCandidate \/ PlmRepaired

SpecFault == InitDown /\ [][NextFault]_vars

(***************************************************************************)
(* SpecDir: one plot is processed against directories as they may be found *)
(* on the share: an archive that holds any few names, legacy ones among    *)
(* them, and a historical tree that may hold one.                          *)
(***************************************************************************)
DirOf(S, c) == [n \in S |-> c]

InitDir ==
  /\ InitGui
  /\ \E A \in {X \in SUBSET PlotNames : Cardinality(X) <= MaxArchived},
        S \in {{}} \cup {{a} : a \in PlotNames} :
       fs = [d \in Dirs |-> IF d = ARCHIVIO_DISEGNI THEN DirOf(A, OldContent)
                            ELSE IF d = ARCHIVIO_STORICO THEN DirOf(S, OldStorico)
                            ELSE EmptyDir]
  /\ last = NoCall
  /\ narrived = MaxArrivals - 1
  /\ rpc = "idle"
  /\ candidates = {}
  /\ clean = FALSE
  /\ settled = FALSE
  /\ plm_down = FALSE

SpecDir == InitDir /\ [][Next]_vars

(***************************************************************************)
(* swarky_iss_fiv.py: the ISS, FIV and HENGELO ingests                     *)
(***************************************************************************)
\* write_edi for each name of S, one after the other.
write_edi_each(f, S, out_dir) ==
  [f EXCEPT ![out_dir] =
     [a \in DOMAIN f[out_dir] \cup {DESEDI(n) : n \in S} |->
        IF a \in DOMAIN f[out_dir] THEN f[out_dir][a] ELSE EdiBody]]

\* DIR_ISS/SwarkyISS.log; its content is the number of its lines.
IssLog == [BadRegex EXCEPT !.ext = "log"]

\* swarky_core.py write_lines(DIR_ISS/SwarkyISS.log, [line]), once for each name of S:
\* the file is created or appended to.
iss_log_lines(f, S) ==
  IF S = {} THEN f
  ELSE [f EXCEPT ![DIR_ISS] = put(f[DIR_ISS], IssLog, At(f[DIR_ISS], IssLog) + Cardinality(S))]

\* swarky_iss_fiv.py:39-42 and 48-50: the PDFs of DIR_ISS, and those one of the three
\* patterns matches.
iss_candidates(f) == {n \in Files(f[DIR_ISS]) : n.ext = "pdf"}
iss_matching(f) ==
  {n \in iss_candidates(f) : ISS_BASENAME(n) \/ ISS_BASENAME_2(n) \/ BASE_NAME(n)}

\* swarky_iss_fiv.py:48-61: ISS_BASENAME is tried first, then ISS_BASENAME_2, then
\* BASE_NAME.
iss_kind(n) ==
  IF ISS_BASENAME(n) THEN "ISS_CLASSIC" ELSE IF ISS_BASENAME_2(n) THEN "ISS_MARK" ELSE "ISS_STD"

\* swarky_iss_fiv.py:52-54 and 104: log_error for a PDF no pattern matches,
\* log_swarky(cfg, name, "ISS", kind, "", "") for the others.
iss_events(f) ==
  {Anomaly(n, "Nome ISS Errato", {}) : n \in iss_candidates(f) \ iss_matching(f)}
    \cup {Processed(n, iss_kind(n), {}) : n \in iss_matching(f)}

iss_loading_no_sidecar(f) ==
  iss_log_lines(move_each(f, DIR_ISS, iss_matching(f), PLM_DIR), iss_matching(f))

\* swarky_iss_fiv.py:24-119: each PDF one of the three patterns matches is moved to
\* PLM_DIR, gets its sidecar there and (110-117) a line in SwarkyISS.log; the others
\* stay ("Nome ISS Errato").
iss_loading(f) ==
  LET S == iss_matching(f)
  IN iss_log_lines(write_edi_each(move_each(f, DIR_ISS, S, PLM_DIR), S, PLM_DIR), S)

\* swarky_iss_fiv.py:124-168: each TIF/PDF BASE_NAME matches gets its sidecar in
\* PLM_DIR and is moved there; the others stay ("Nome FIV Errato").
fiv_loading(f) ==
  LET S == {n \in Files(f[DIR_FIV_LOADING]) : n.ext \in {"tif", "pdf"} /\ BASE_NAME(n)}
  IN move_each(write_edi_each(f, S, PLM_DIR), DIR_FIV_LOADING, S, PLM_DIR)

\* name.lower(), and p.stem.lower(): the two spellings of a name give the same.
lower(n) == [n EXCEPT !.lc = FALSE]
stem_key(n) == [lower(n) EXCEPT !.ext = ""]

\* swarky_iss_fiv.py:191-193: drawings, desedis (stem_key -> entry), ambiguous.
HengStart == [drawings |-> EmptyDir, desedis |-> EmptyDir, ambiguous |-> {}]

\* swarky_iss_fiv.py:195-218: one iteration of the loop over the directory entries.
\* An entry whose stem_key is recorded with another name.lower() makes the stem
\* ambiguous; one recorded with the same name.lower() replaces the record.
heng_seen(st, p) ==
  LET k == stem_key(p)
      dropped == [drawings |-> del(st.drawings, {k}), desedis |-> del(st.desedis, {k}),
                  ambiguous |-> st.ambiguous \cup {k}]
  IN IF k \in st.ambiguous THEN st
     ELSE IF p.ext \in {"pdf", "tif"}
       THEN IF k \in DOMAIN st.drawings /\ lower(st.drawings[k]) # lower(p)
              THEN dropped
              ELSE [st EXCEPT !.drawings = put(st.drawings, k, p)]
     ELSE IF p.ext = "desedi"
       THEN IF k \in DOMAIN st.desedis /\ lower(st.desedis[k]) # lower(p)
              THEN dropped
              ELSE [st EXCEPT !.desedis = put(st.desedis, k, p)]
     ELSE st

RECURSIVE heng_scan(_, _)
heng_scan(files, st) ==
  IF files = <<>> THEN st ELSE heng_scan(Tail(files), heng_seen(st, Head(files)))

\* The orders in which iterdir() may give the entries of a directory.
Enumerations(S) ==
  {s \in [1..Cardinality(S) -> S] : {s[i] : i \in 1..Cardinality(S)} = S}

\* swarky_iss_fiv.py:220.
pair_keys(st) == (DOMAIN st.drawings \cap DOMAIN st.desedis) \ st.ambiguous

heng_loading_sidecar_first(f, files, dwg_fails, edi_fails) ==
  LET st == heng_scan(files, HengStart)
      moved == {st.desedis[k] : k \in pair_keys(st) \ edi_fails}
                 \cup {st.drawings[k] : k \in pair_keys(st) \ (dwg_fails \cup edi_fails)}
  IN move_each(f, DIR_HENGELO, moved, PLM_DIR)

\* swarky_iss_fiv.py:174-248, heng_loading over the entries as enumerated: of each
\* pair the drawing is moved to PLM_DIR, then the sidecar. dwg_fails, edi_fails:
\* the pairs for which that move raises (caught at 243: no rollback, next pair).
heng_loading(f, files, dwg_fails, edi_fails) ==
  LET st == heng_scan(files, HengStart)
      moved == {st.drawings[k] : k \in pair_keys(st) \ dwg_fails}
                 \cup {st.desedis[k] : k \in pair_keys(st) \ (dwg_fails \cup edi_fails)}
  IN move_each(f, DIR_HENGELO, moved, PLM_DIR)

pipeline_iter_candidates_any_suffix(d, accept_pdf) ==
  {n \in Files(d) : n.ext \in {"tif", "pdf"}}

\* swarky_pipeline.py:35-44, _iter_candidates(dirp, accept_pdf): exts is {".tif"},
\* and ".pdf" with it when accept_pdf.
pipeline_iter_candidates(d, accept_pdf) ==
  {n \in Files(d) : n.ext \in {"tif"} \cup (IF accept_pdf THEN {"pdf"} ELSE {})}

\* swarky_pipeline.py:35-44, _iter_candidates with ACCEPT_PDF (swarky_core.py:31).
iter_candidates_one(d) ==
  IF Files(d) = {} THEN {} ELSE {CHOOSE n \in Files(d) : n.ext \in {"tif", "pdf"}}

iter_candidates(d) == {n \in Files(d) : n.ext \in {"tif", "pdf"}}

(***************************************************************************)
(* SpecRun: passes of swarky_pipeline.run_once; files are delivered to the *)
(* plotter, ISS, FIV and HENGELO folders at any moment.                    *)
(***************************************************************************)
Drops ==
  ({DIR_HPLOTTER} \X {FirstName, BadRegex})
    \cup ({DIR_ISS} \X {IssClassic, IssMark, IssStd, IssBad})
    \cup ({DIR_FIV_LOADING} \X {FirstName, BadRegex})
    \cup ({DIR_HENGELO} \X {FirstName, DESEDI(FirstName), IssStd})

\* A file lands in one of the input folders.
Drop ==
  /\ narrived < MaxArrivals
  /\ \E x \in Drops :
       /\ x[2] \notin DOMAIN fs[x[1]]
       /\ fs' = [fs EXCEPT ![x[1]] = put(fs[x[1]], x[2], narrived + 1)]
  /\ narrived' = narrived + 1
  /\ clean' = FALSE
  /\ settled' = FALSE
  /\ UNCHANGED <<last, rpc, candidates, plm_down>>
  /\ UNCHANGED guiVars

\* swarky_pipeline.py:323-324: the scan of DIR_HPLOTTER.
RunScan ==
  /\ rpc = "idle"
  /\ rpc' = "loop"
  /\ candidates' = iter_candidates(plotter)
  /\ clean' = TRUE
  /\ UNCHANGED <<fs, last, narrived, settled, plm_down>>
  /\ UNCHANGED guiVars

\* swarky_pipeline.py:327-331: one iteration of the loop over the candidates.
RunCandidate ==
  /\ rpc = "loop"
  /\ \E n \in candidates :
       /\ \E v \in {Verdict(archive, n, At(plotter, n))} :
            \E ref \in v.refs, iref \in v.info :
              process_candidate(n, FaultNow, ref, iref)
       /\ candidates' = candidates \ {n}
  /\ UNCHANGED <<narrived, rpc, clean, settled, plm_down>>
  /\ UNCHANGED guiVars

\* swarky_pipeline.py:334.
RunIss ==
  /\ rpc = "loop"
  /\ candidates = {}
  /\ rpc' = "fiv"
  /\ fs' = iss_loading(fs)
  /\ UNCHANGED <<last, narrived, candidates, clean, settled, plm_down>>
  /\ UNCHANGED guiVars

\* swarky_pipeline.py:335.
RunFiv ==
  /\ rpc = "fiv"
  /\ rpc' = "heng"
  /\ fs' = fiv_loading(fs)
  /\ UNCHANGED <<last, narrived, candidates, clean, settled, plm_down>>
  /\ UNCHANGED guiVars

\* swarky_pipeline.py:336-348: the last ingest; the pass returns.
RunHeng ==
  /\ rpc = "heng"
  /\ rpc' = "idle"
  /\ \E files \in Enumerations(Files(fs[DIR_HENGELO])) :
       fs' = heng_loading(fs, files, {}, {})
  /\ settled' = clean
  /\ UNCHANGED <<last, narrived, candidates, clean, plm_down>>
  /\ UNCHANGED guiVars

NextRun == Drop \/ RunScan \/ RunCandidate \/ RunIss \/ RunFiv \/ RunHeng

SpecRun == Init /\ [][NextRun]_vars

(***************************************************************************)
(* SpecRunFault: passes of swarky_pipeline.run_once over input folders     *)
(* found filled; a filesystem operation of any call of _process_candidate  *)
(* may raise, and a pass that began runs to its end.                       *)
(***************************************************************************)
RunCandidateFault_aborting ==
  /\ rpc = "loop"
  /\ \E n \in candidates, flt \in Faults :
       /\ \E v \in {Verdict(archive, n, At(plotter, n))} :
            \E ref \in v.refs, iref \in v.info :
              process_candidate(n, flt, ref, iref)
       /\ candidates' = IF flt = "move" THEN {} ELSE candidates \ {n}
       /\ rpc' = IF flt = "move" THEN "idle" ELSE "loop"
  /\ UNCHANGED <<narrived, clean, settled, plm_down>>
  /\ UNCHANGED guiVars

\* swarky_pipeline.py:327-331: one iteration of the loop over the candidates. What
\* the call raises is caught at line 267 (and would be at 330); the loop goes on.
RunCandidateFault ==
  /\ rpc = "loop"
  /\ \E n \in candidates, flt \in Faults :
       /\ \E v \in {Verdict(archive, n, At(plotter, n))} :
            \E ref \in v.refs, iref \in v.info :
              process_candidate(n, flt, ref, iref)
       /\ candidates' = candidates \ {n}
       /\ rpc' = "loop"
  /\ UNCHANGED <<narrived, clean, settled, plm_down>>
  /\ UNCHANGED guiVars

RunStepFault == RunScan \/ RunCandidateFault \/ RunIss \/ RunFiv \/ RunHeng

\* The input folders as a pass may find them: any of two plots in DIR_HPLOTTER,
\* a PDF in DIR_ISS, a drawing in DIR_FIV_LOADING, a pair in DIR_HENGELO.
InitRunFault ==
  /\ InitGui
  /\ \E P \in SUBSET {FirstName, BadRegex}, I \in SUBSET {IssStd},
        F \in SUBSET {FirstName}, H \in {{}, {FirstName, DESEDI(FirstName)}} :
       fs = [d \in Dirs |-> IF d = DIR_HPLOTTER THEN DirOf(P, 1)
                            ELSE IF d = DIR_ISS THEN DirOf(I, 2)
                            ELSE IF d = DIR_FIV_LOADING THEN DirOf(F, 3)
                            ELSE IF d = DIR_HENGELO THEN DirOf(H, 4)
                            ELSE EmptyDir]
  /\ last = NoCall
  /\ narrived = MaxArrivals
  /\ rpc = "idle"
  /\ candidates = {}
  /\ clean = FALSE
  /\ settled = FALSE
  /\ plm_down = FALSE

NextRunFault == RunStepFault

SpecRunFault == InitRunFault /\ [][NextRunFault]_vars /\ WF_vars(RunStepFault)

(***************************************************************************)
(* SpecHeng: calls of heng_loading over a DIR_HENGELO found filled: a TIFF *)
(* and a PDF of one stem, the sidecar of that stem, the same drawing and   *)
(* the same sidecar spelled in the other letter case, a pair of another    *)
(* stem. The moves of a call may raise.                                    *)
(***************************************************************************)
OtherCase(n) == [n EXCEPT !.lc = TRUE]

HengNames ==
  {FirstName, IssStd, DESEDI(FirstName), OtherCase(FirstName), OtherCase(DESEDI(FirstName)),
   BadRegex, DESEDI(BadRegex)}

InitHeng ==
  /\ InitGui
  /\ \E H \in {X \in SUBSET HengNames : Cardinality(X) <= MaxHeng} :
       fs = [d \in Dirs |-> IF d = DIR_HENGELO THEN DirOf(H, 1) ELSE EmptyDir]
  /\ last = NoCall
  /\ narrived = MaxArrivals
  /\ rpc = "idle"
  /\ candidates = {}
  /\ clean = FALSE
  /\ settled = FALSE
  /\ plm_down = FALSE

HengKeys == {stem_key(n) : n \in HengNames}

\* swarky_iss_fiv.py:174-248: one call of heng_loading(cfg). raises: which move of
\* a pair raises in this call, the drawing's (227) or the sidecar's (230).
HengLoading ==
  /\ \E files \in Enumerations(Files(fs[DIR_HENGELO])), raises \in {"none", "dwg", "edi"} :
       /\ fs' = heng_loading(fs, files, IF raises = "dwg" THEN HengKeys ELSE {},
                                        IF raises = "edi" THEN HengKeys ELSE {})
       /\ last' = [NoCall EXCEPT !.out = "HENG", !.flt = raises]
  /\ UNCHANGED <<narrived, runVars, plm_down>>
  /\ UNCHANGED guiVars

NextHeng == HengLoading

SpecHeng == InitHeng /\ [][NextHeng]_vars

(***************************************************************************)
(* SpecIss: calls of iss_loading over a DIR_ISS found filled: PDFs of the  *)
(* three shapes, a PDF of none, a TIFF; SwarkyISS.log may exist, and so    *)
(* may a sidecar in PLM_DIR.                                               *)
(***************************************************************************)
IssNames == {IssClassic, IssMark, IssStd, IssBad, FirstName}

InitIss ==
  /\ InitGui
  /\ \E I \in SUBSET IssNames, L \in SUBSET {IssLog}, E \in SUBSET {DESEDI(IssStd)} :
       fs = [d \in Dirs |-> IF d = DIR_ISS THEN DirOf(I, 1) @@ DirOf(L, 1)
                            ELSE IF d = PLM_DIR THEN DirOf(E, OldContent)
                            ELSE EmptyDir]
  /\ last = NoCall
  /\ narrived = MaxArrivals
  /\ rpc = "idle"
  /\ candidates = {}
  /\ clean = FALSE
  /\ settled = FALSE
  /\ plm_down = FALSE

\* swarky_iss_fiv.py:24-119: one call of iss_loading(cfg), and what it logged.
IssLoading ==
  /\ fs' = iss_loading(fs)
  /\ last' = [NoCall EXCEPT !.out = "ISS", !.ev = [NoEvents EXCEPT !.final = iss_events(fs)]]
  /\ UNCHANGED <<narrived, runVars, plm_down>>
  /\ UNCHANGED guiVars

NextIss == IssLoading

SpecIss == InitIss /\ [][NextIss]_vars

(***************************************************************************)
(* SpecFiv: calls of fiv_loading, step by step, over a DIR_FIV_LOADING     *)
(* found filled; PLM_DIR may hold a sidecar or a drawing of the same name. *)
(* rpc is the position in fiv_loading, candidates the entries the loop has *)
(* still to take, last.name the entry in hand.                             *)
(***************************************************************************)
FivContent == 3
FivNames == {FirstName, PdfTwin, BadRegex, IssLog}

InitFiv ==
  /\ InitGui
  /\ \E F \in SUBSET FivNames, E \in SUBSET {DESEDI(FirstName), FirstName} :
       fs = [d \in Dirs |-> IF d = DIR_FIV_LOADING THEN DirOf(F, FivContent)
                            ELSE IF d = PLM_DIR THEN DirOf(E, OldContent)
                            ELSE EmptyDir]
  /\ last = NoCall
  /\ narrived = MaxArrivals
  /\ rpc = "idle"
  /\ candidates = {}
  /\ clean = FALSE
  /\ settled = FALSE
  /\ plm_down = FALSE

fiv_write_edi_skipped(f, n) == f

\* swarky_iss_fiv.py:157-158: write_edi(m=m, file_name=p.name, loc=loc, out_dir=PLM_DIR).
fiv_write_edi(f, n) == write_edi(f, n, PLM_DIR)

\* swarky_iss_fiv.py:138-143: the entries of DIR_FIV_LOADING are listed.
FivList ==
  /\ rpc = "idle"
  /\ rpc' = "fiv_loop"
  /\ candidates' = Files(fs[DIR_FIV_LOADING])
  /\ last' = [NoCall EXCEPT !.out = "FIV"]
  /\ UNCHANGED <<fs, narrived, clean, settled, plm_down>>
  /\ UNCHANGED guiVars

\* swarky_iss_fiv.py:145-153: an entry the suffix filter or BASE_NAME turns away
\* (the latter with 'Nome FIV Errato').
FivSkip ==
  /\ rpc = "fiv_loop"
  /\ \E n \in candidates :
       /\ n.ext \notin {"tif", "pdf"} \/ ~BASE_NAME(n)
       /\ candidates' = candidates \ {n}
       /\ last' = [NoCall EXCEPT !.out = "FIV", !.name = {n},
                     !.ev = [NoEvents EXCEPT !.pre =
                               IF n.ext \in {"tif", "pdf"}
                                 THEN {Anomaly(n, "Nome FIV Errato", {})} ELSE {}]]
  /\ UNCHANGED <<fs, narrived, rpc, clean, settled, plm_down>>
  /\ UNCHANGED guiVars

\* swarky_iss_fiv.py:154-158: map_location and write_edi for an entry BASE_NAME
\* matches; if write_edi raises, line 166 logs and the loop takes the next entry.
FivWriteEdi ==
  /\ rpc = "fiv_loop"
  /\ \E n \in candidates, raises \in BOOLEAN :
       /\ n.ext \in {"tif", "pdf"} /\ BASE_NAME(n)
       /\ last' = [NoCall EXCEPT !.out = "FIV", !.name = {n}]
       /\ IF raises
            THEN /\ candidates' = candidates \ {n}
                 /\ UNCHANGED <<fs, rpc>>
            ELSE /\ fs' = fiv_write_edi(fs, n)
                 /\ rpc' = "fiv_move"
                 /\ UNCHANGED candidates
  /\ UNCHANGED <<narrived, clean, settled, plm_down>>
  /\ UNCHANGED guiVars

\* swarky_iss_fiv.py:160-164: move_to(p, PLM_DIR), log_swarky; if the move raises,
\* line 166 logs and the loop takes the next entry.
FivMove ==
  /\ rpc = "fiv_move"
  /\ \E n \in last.name, raises \in BOOLEAN :
       /\ fs' = IF raises THEN fs ELSE move_to(fs, DIR_FIV_LOADING, n, PLM_DIR)
       /\ last' = [last EXCEPT !.ev = [NoEvents EXCEPT !.final =
                      IF raises THEN {} ELSE {Processed(n, "FIV loading", {})}]]
       /\ candidates' = candidates \ {n}
  /\ rpc' = "fiv_loop"
  /\ UNCHANGED <<narrived, clean, settled, plm_down>>
  /\ UNCHANGED guiVars

\* swarky_iss_fiv.py:168: the loop is over, fiv_loading returns.
FivReturn ==
  /\ rpc = "fiv_loop"
  /\ candidates = {}
  /\ rpc' = "idle"
  /\ UNCHANGED <<fs, last, narrived, candidates, clean, settled, plm_down>>
  /\ UNCHANGED guiVars

NextFiv == FivList \/ FivSkip \/ FivWriteEdi \/ FivMove \/ FivReturn

SpecFiv == InitFiv /\ [][NextFiv]_vars

(***************************************************************************)
(* SpecReplay: passes of run_once over the plotter folder, begun while     *)
(* PLM_DIR cannot be written. The outage ends, and run_once is called      *)
(* again and again (the watch worker, the scheduler) and runs to its end.  *)
(***************************************************************************)
RunStep == RunScan \/ RunCandidate \/ RunIss \/ RunFiv \/ RunHeng

NextReplay == Arrive \/ PlmRepaired \/ RunStep

SpecReplay ==
  InitDown /\ [][NextReplay]_vars /\ WF_vars(PlmRepaired) /\ WF_vars(RunStep)

(***************************************************************************)
(* gui.py: the command-line program (main, watch_loop, run_once), over     *)
(* swarky_logic.py and swarky_io.py                                        *)
(***************************************************************************)
\* swarky_io.py:117-141, _try_link_then_copy(src, dst): os.link, then os.replace,
\* then a buffered copy, the first that does not raise OSError.
\*   "link"     os.link succeeded: dst did not exist, same volume;
\*   "replace"  os.link raised, os.replace succeeded: the source is renamed;
\*   "copy"     both raised (two volumes): dst is written, the source stays.
LinkOutcomes == {"link", "replace", "copy"}

try_link_then_copy(f, src_dir, n, dst_dir, how) ==
  IF how = "replace" THEN move_to(f, src_dir, n, dst_dir)
  ELSE copy_file(f, src_dir, n, dst_dir)

\* What the volume allows for src -> dst_dir/n: os.link raises when dst exists.
CanLink(f, n, dst_dir, how) == how = "link" => n \notin DOMAIN f[dst_dir]

\* swarky_io.py:219-228, move_to: _try_link_then_copy, then the source is unlinked
\* if it is still there.
io_move_to(f, src_dir, n, dst_dir, how) ==
  LET g == try_link_then_copy(f, src_dir, n, dst_dir, how)
  IN [g EXCEPT ![src_dir] = del(g[src_dir], {n})]

\* swarky_io.py:230-246, move_to_storico_safe for each name of S: os.replace (or the
\* copy and unlink after it) puts the file at dst, over a file that is there.
io_move_to_storico_safe(f, S) == move_each(f, ARCHIVIO_DISEGNI, S, ARCHIVIO_STORICO)

\* swarky_io.py:216-217 and gui.py:318-322: fast_copy_or_link(new_path, PLM_DIR/name).
fast_copy_or_link(f, n, how) == try_link_then_copy(f, ARCHIVIO_DISEGNI, n, PLM_DIR, how)

\* swarky_io.py:253-258: the sidecar is written unless it exists.
io_write_edi(f, n, out_dir) ==
  IF DESEDI(n) \in DOMAIN f[out_dir] THEN f
  ELSE [f EXCEPT ![out_dir] = put(f[out_dir], DESEDI(n), EdiBody)]

\* gui.py:151-338: one call of _process_candidate(p, cfg), p = DIR_HPLOTTER/n. Lines
\* 164-278 take the decision Verdict takes, in the same order; how and plm_how are
\* what the volumes allow the move of the candidate and the PLM copy to be.
gui_process_candidate(n, how, plm_how, ref, iref) ==
  \E c \in {At(plotter, n)} :
  \E v \in {Verdict(archive, n, c)} :
  \E same \in {to_storico_same(archive, n)},
     other \in {to_storico_other(archive, n)} :
  \E pre \in {IF v.out = "ACCEPTED"
                THEN IF iref = {} THEN {} ELSE {Processed(n, "Metrica Diversa", iref)}
                ELSE {Anomaly(n, v.reason, ref)}} :
  LET dst == CASE v.out = "REJECTED" -> ERROR_DIR
               [] v.out = "DUPLICATE" -> PARI_REV_DIR
               [] v.out = "ACCEPTED" -> ARCHIVIO_DISEGNI
  IN
  /\ c # 0
  /\ ref \in v.refs
  /\ iref \in v.info
  /\ CanLink(fs, n, dst, how)
  /\ IF v.out # "ACCEPTED"
       THEN /\ fs' = io_move_to(fs, DIR_HPLOTTER, n, dst, how)
            /\ last' = [name |-> {n}, id |-> c, out |-> v.out, flt |-> "none",
                        ev |-> [NoEvents EXCEPT !.pre = pre]]
       ELSE \* line 281, the new file; 285-315, the superseded ones; 318-331, PLM
            /\ \E f1 \in {io_move_to(fs, DIR_HPLOTTER, n, ARCHIVIO_DISEGNI, how)} :
               \E f2 \in {io_move_to_storico_safe(f1, same \cup other)} :
                 /\ CanLink(f2, n, PLM_DIR, plm_how)
                 /\ fs' = io_write_edi(fast_copy_or_link(f2, n, plm_how), n, PLM_DIR)
            /\ last' = [name |-> {n}, id |-> c, out |-> "ACCEPTED", flt |-> "none",
                        ev |-> [pre |-> pre,
                                legacy |-> {},
                                same |-> {Processed(n, "Rev superata", {e}) : e \in same},
                                other |-> {Processed(n, "Rev superata", {e}) : e \in other},
                                final |-> {Processed(n, "Archiviato", {})}]]

\* gui.py:341-371: each PDF ISS_BASENAME matches is moved to PLM_DIR, gets its
\* sidecar there and (364-369) a line in SwarkyISS.log; the others stay ("Nome ISS
\* Errato").
gui_iss_loading(f) ==
  LET S == {n \in Files(f[DIR_ISS]) : n.ext = "pdf" /\ ISS_BASENAME(n)}
  IN iss_log_lines(write_edi_each(move_each(f, DIR_ISS, S, PLM_DIR), S, PLM_DIR), S)

\* gui.py:373-408: each TIF/PDF BASE_NAME matches gets its sidecar in PLM_DIR and is
\* moved there; the others stay ("Nome FIV Errato").
gui_fiv_loading(f) ==
  LET S == {n \in Files(f[DIR_FIV_LOADING]) : n.ext \in {"tif", "pdf"} /\ BASE_NAME(n)}
  IN move_each(write_edi_each(f, S, PLM_DIR), DIR_FIV_LOADING, S, PLM_DIR)

\* swarky_io.py:199-208, iter_candidates with ACCEPT_PDF (gui.py:55).
io_iter_candidates(d) == {n \in Files(d) : n.ext \in {"tif", "pdf"}}

(***************************************************************************)
(* SpecCli: passes of gui.py's run_once; files are delivered to the        *)
(* plotter, ISS, FIV and HENGELO folders at any moment.                    *)
(***************************************************************************)
\* gui.py:445-448: the scan of DIR_HPLOTTER.
CliScan ==
  /\ rpc = "idle"
  /\ rpc' = "loop"
  /\ candidates' = io_iter_candidates(plotter)
  /\ clean' = TRUE
  /\ UNCHANGED <<fs, last, narrived, settled, plm_down>>
  /\ UNCHANGED guiVars

\* gui.py:451-455: one iteration of the loop over the candidates.
CliCandidate ==
  /\ rpc = "loop"
  /\ \E n \in candidates :
       /\ \E v \in {Verdict(archive, n, At(plotter, n))} :
            \E ref \in v.refs, iref \in v.info, how \in LinkOutcomes, plm_how \in LinkOutcomes :
              gui_process_candidate(n, how, plm_how, ref, iref)
       /\ candidates' = candidates \ {n}
  /\ UNCHANGED <<narrived, rpc, clean, settled, plm_down>>
  /\ UNCHANGED guiVars

\* gui.py:458.
CliIss ==
  /\ rpc = "loop"
  /\ candidates = {}
  /\ rpc' = "fiv"
  /\ fs' = gui_iss_loading(fs)
  /\ UNCHANGED <<last, narrived, candidates, clean, settled, plm_down>>
  /\ UNCHANGED guiVars

\* gui.py:459-471: the last ingest; the pass returns.
CliFiv ==
  /\ rpc = "fiv"
  /\ rpc' = "idle"
  /\ fs' = gui_fiv_loading(fs)
  /\ settled' = clean
  /\ UNCHANGED <<last, narrived, candidates, clean, plm_down>>
  /\ UNCHANGED guiVars

NextCli == Drop \/ CliScan \/ CliCandidate \/ CliIss \/ CliFiv

SpecCli == Init /\ [][NextCli]_vars

(***************************************************************************)
(* SpecEdi: write_edi of swarky_core.py and of swarky_io.py, called for    *)
(* any file name over a PLM_DIR that holds any older sidecars.             *)
(***************************************************************************)
EdiNames == {FirstName, BadRegex, IssClassic, IssMark}

InitEdi ==
  /\ InitGui
  /\ \E E \in SUBSET {DESEDI(n) : n \in EdiNames} :
       fs = [d \in Dirs |-> IF d = PLM_DIR THEN DirOf(E, OldContent) ELSE EmptyDir]
  /\ last = NoCall
  /\ narrived = MaxArrivals
  /\ rpc = "idle"
  /\ candidates = {}
  /\ clean = FALSE
  /\ settled = FALSE
  /\ plm_down = FALSE

\* swarky_core.py:401-475: a call write_edi(file_name=n, out_dir=PLM_DIR, ...).
CoreWriteEdi ==
  /\ \E n \in EdiNames :
       /\ fs' = write_edi(fs, n, PLM_DIR)
       /\ last' = [NoCall EXCEPT !.out = "EDI", !.name = {n}, !.id = At(plm, DESEDI(n))]
  /\ UNCHANGED <<narrived, runVars, plm_down>>
  /\ UNCHANGED guiVars

\* swarky_io.py:253-258 and 294-295: a call write_edi(file_name=n, out_dir=PLM_DIR,
\* body_lines=...).
IoWriteEdi ==
  /\ \E n \in EdiNames :
       /\ fs' = io_write_edi(fs, n, PLM_DIR)
       /\ last' = [NoCall EXCEPT !.out = "EDI_IO", !.name = {n}, !.id = At(plm, DESEDI(n))]
  /\ UNCHANGED <<narrived, runVars, plm_down>>
  /\ UNCHANGED guiVars

NextEdi == CoreWriteEdi \/ IoWriteEdi

SpecEdi == InitEdi /\ [][NextEdi]_vars

(***************************************************************************)
(* SpecValid: one plot is processed by _process_candidate; the plot may be *)
(* turned, its name may miss BASE_NAME, and its format, location and       *)
(* metric letters may each be outside the accepted ones, in any            *)
(* combination; the archive may hold a file of the same name.              *)
(***************************************************************************)
LetterNames ==
  {[FirstName EXCEPT !.re = r, !.fmt = f, !.loc = l, !.met = m] :
     r \in BOOLEAN, f \in {"A", "Z"}, l \in {"M", "X"}, m \in {"M", "X"}}

InitValid ==
  /\ InitGui
  /\ \E A \in {X \in SUBSET LetterNames : Cardinality(X) <= 1} :
       fs = [d \in Dirs |-> IF d = ARCHIVIO_DISEGNI THEN DirOf(A, OldContent) ELSE EmptyDir]
  /\ last = NoCall
  /\ narrived = MaxArrivals - 1
  /\ rpc = "idle"
  /\ candidates = {}
  /\ clean = FALSE
  /\ settled = FALSE
  /\ plm_down = FALSE

\* A plot lands in DIR_HPLOTTER, upright or turned.
ArriveAny ==
  /\ Files(plotter) = {}
  /\ narrived < MaxArrivals
  /\ \E n \in LetterNames, turned \in BOOLEAN :
       fs' = [fs EXCEPT ![DIR_HPLOTTER] =
                put(plotter, n, IF turned THEN 0 - (narrived + 1) ELSE narrived + 1)]
  /\ narrived' = narrived + 1
  /\ clean' = FALSE
  /\ settled' = FALSE
  /\ UNCHANGED <<last, rpc, candidates, plm_down>>
  /\ UNCHANGED guiVars

NextValid == ArriveAny \/ ProcessCandidate

SpecValid == InitValid /\ [][NextValid]_vars

(***************************************************************************)
(* SpecSidecar: calls of fiv_loading over a DIR_FIV_LOADING found filled,  *)
(* a TIFF and a PDF of one stem among its entries; the sidecar is modelled *)
(* with the fields _edi_body writes from the name of the drawing.          *)
(***************************************************************************)
\* swarky_core.py:346-398 and 464-473: the lines of the sidecar that come from the
\* file name, for a name BASE_NAME matches.
edi_body(n) ==
  [FileName |-> n, DocumentRev |-> n.rev, SheetNumber |-> n.sheet,
   FileType |-> IF n.ext = "pdf" THEN "Pdf" ELSE "Tiff"]

\* swarky_core.py:415-417 and 462-475: write_edi, with the body it writes.
write_edi_body(f, n, out_dir) ==
  IF DESEDI(n) \in DOMAIN f[out_dir] THEN f
  ELSE [f EXCEPT ![out_dir] = put(f[out_dir], DESEDI(n), edi_body(n))]

SidecarNames == {FirstName, IssStd, [FirstName EXCEPT !.rev = MaxRev], PdfTwin, BadRegex}

InitSidecar ==
  /\ InitGui
  /\ \E F \in SUBSET SidecarNames :
       fs = [d \in Dirs |-> IF d = DIR_FIV_LOADING THEN DirOf(F, FivContent) ELSE EmptyDir]
  /\ last = NoCall
  /\ narrived = 0
  /\ rpc = "idle"
  /\ candidates = {}
  /\ clean = FALSE
  /\ settled = FALSE
  /\ plm_down = FALSE

\* swarky_iss_fiv.py:152-164: one iteration of the loop for an entry BASE_NAME
\* matches, nothing raising: map_location, write_edi, move_to, log_swarky.
FivEntry ==
  /\ rpc = "fiv_loop"
  /\ \E n \in candidates :
       /\ n.ext \in {"tif", "pdf"} /\ BASE_NAME(n)
       /\ fs' = move_to(write_edi_body(fs, n, PLM_DIR), DIR_FIV_LOADING, n, PLM_DIR)
       /\ last' = [NoCall EXCEPT !.out = "FIV", !.name = {n},
                     !.ev = [NoEvents EXCEPT !.final = {Processed(n, "FIV loading", {})}]]
       /\ candidates' = candidates \ {n}
  /\ UNCHANGED <<narrived, rpc, clean, settled, plm_down>>
  /\ UNCHANGED guiVars

NextSidecar == FivList \/ FivSkip \/ FivEntry \/ FivReturn

SpecSidecar == InitSidecar /\ [][NextSidecar]_vars

(***************************************************************************)
(* SpecGuiDir: one plot is processed by gui.py's _process_candidate        *)
(* against directories as they may be found on the share (InitDir).        *)
(***************************************************************************)
\* gui.py:451-455: _process_candidate(p, cfg) for a file of DIR_HPLOTTER.
GuiProcessCandidate ==
  /\ \E n \in Files(plotter) :
       \E v \in {Verdict(archive, n, At(plotter, n))} :
         \E ref \in v.refs, iref \in v.info, how \in LinkOutcomes, plm_how \in LinkOutcomes :
           gui_process_candidate(n, how, plm_how, ref, iref)
  /\ UNCHANGED <<narrived, runVars, plm_down>>
  /\ UNCHANGED guiVars

NextGuiDir == Arrive \/ GuiProcessCandidate

SpecGuiDir == InitDir /\ [][NextGuiDir]_vars

(***************************************************************************)
(* SpecNoPdf: passes of swarky_pipeline.run_once with ACCEPT_PDF false in  *)
(* the configuration; TIFFs and PDFs are delivered to DIR_HPLOTTER at any  *)
(* moment, the other input folders are found filled.                       *)
(***************************************************************************)
NoPdfPlots == {FirstName, BadRegex, PdfTwin, IssBad}

InitNoPdf ==
  /\ InitGui
  /\ \E I \in SUBSET {IssClassic}, F \in SUBSET {FirstName},
        H \in {{}, {FirstName, DESEDI(FirstName)}} :
       fs = [d \in Dirs |-> IF d = DIR_ISS THEN DirOf(I, 1)
                            ELSE IF d = DIR_FIV_LOADING THEN DirOf(F, 1)
                            ELSE IF d = DIR_HENGELO THEN DirOf(H, 1)
                            ELSE EmptyDir]
  /\ last = NoCall
  /\ narrived = 0
  /\ rpc = "idle"
  /\ candidates = {}
  /\ clean = TRUE
  /\ settled = TRUE
  /\ plm_down = FALSE

\* A file lands in DIR_HPLOTTER.
DropPlot ==
  /\ narrived < MaxArrivals
  /\ \E n \in NoPdfPlots :
       /\ n \notin Files(plotter)
       /\ fs' = [fs EXCEPT ![DIR_HPLOTTER] = put(plotter, n, narrived + 2)]
  /\ narrived' = narrived + 1
  /\ clean' = FALSE
  /\ settled' = FALSE
  /\ UNCHANGED <<last, rpc, candidates, plm_down>>
  /\ UNCHANGED guiVars

\* swarky_pipeline.py:323-324: the scan of DIR_HPLOTTER, cfg.ACCEPT_PDF false.
RunScanNoPdf ==
  /\ rpc = "idle"
  /\ rpc' = "loop"
  /\ candidates' = pipeline_iter_candidates(plotter, FALSE)
  /\ clean' = TRUE
  /\ UNCHANGED <<fs, last, narrived, settled, plm_down>>
  /\ UNCHANGED guiVars

NextNoPdf == DropPlot \/ RunScanNoPdf \/ RunCandidate \/ RunIss \/ RunFiv \/ RunHeng

SpecNoPdf == InitNoPdf /\ [][NextNoPdf]_vars

(***************************************************************************)
(* SpecLoc: map_location of swarky_core.py and of swarky_logic.py, called  *)
(* as fiv_loading calls it, for each name of DIR_FIV_LOADING that          *)
(* BASE_NAME matches: the location letter is any word character, the first *)
(* digit of the document number any digit.                                 *)
(***************************************************************************)
LocLetters == {"M", "K", "X"}
LocDigits == {"1", "4", "5"}
LocNames ==
  {[FirstName EXCEPT !.loc = l, !.doc = <<d, "2", "3", "4", "5", "6">>] :
     l \in LocLetters, d \in LocDigits}

InitLoc ==
  /\ InitGui
  /\ \E F \in {X \in SUBSET LocNames : Cardinality(X) <= 2} :
       fs = [d \in Dirs |-> IF d = DIR_FIV_LOADING THEN DirOf(F, 1) ELSE EmptyDir]
  /\ last = NoCall
  /\ narrived = 0
  /\ rpc = "idle"
  /\ candidates = {}
  /\ clean = TRUE
  /\ settled = TRUE
  /\ plm_down = FALSE

\* swarky_iss_fiv.py:147-154: loc = map_location(m, cfg), of swarky_core.py.
CoreMapLocation ==
  \E n \in Files(fs[DIR_FIV_LOADING]) :
    /\ BASE_NAME(n)
    /\ last' = [name |-> {n}, id |-> 0, out |-> "LOC", flt |-> "none", ev |-> NoEvents,
                via |-> "swarky_core", loc |-> map_location(n)]
    /\ UNCHANGED <<guiVars, fs, narrived, runVars, plm_down>>

\* gui.py:385-390: loc = map_location(m, cfg), of swarky_logic.py.
LogicMapLocation ==
  \E n \in Files(fs[DIR_FIV_LOADING]) :
    /\ BASE_NAME(n)
    /\ last' = [name |-> {n}, id |-> 0, out |-> "LOC", flt |-> "none", ev |-> NoEvents,
                via |-> "swarky_logic", loc |-> logic_map_location(n)]
    /\ UNCHANGED <<guiVars, fs, narrived, runVars, plm_down>>

NextLoc == CoreMapLocation \/ LogicMapLocation

SpecLoc == InitLoc /\ [][NextLoc]_vars

(***************************************************************************)
(* SpecGui: the threads of SwarkyApp; run_once is entered and left.        *)
(***************************************************************************)
NextGui ==
  /\ \/ run_once_thread
     \/ after_batch
     \/ start_watch
     \/ stop_watch_set
     \/ stop_watch_joined
     \/ \E t \in ManualIds :
          \/ M_TryAcquire(t)
          \/ M_EnterRunOnce(t)
          \/ M_LeaveRunOnce(t)
          \/ M_FinallyLocked(t)
          \/ M_FinallyRelease(t)
          \/ M_FinallyFlag(t)
          \/ M_FinallyAfter(t)
     \/ \E w \in WatchIds :
          \/ W_Head(w)
          \/ W_TryAcquire(w)
          \/ W_EnterRunOnce(w)
          \/ W_LeaveRunOnce(w)
          \/ W_FinallyRelease(w)
          \/ W_FinallyAfter(w)
          \/ W_Sleep(w)
  /\ UNCHANGED fsVars

SpecGui == Init /\ [][NextGui]_vars

\* SpecWatch: the periodic watch alone (the Swarky button is not used). A watch
\* worker that can take the next step of its sleep loop (583-586) or of its loop
\* test (541) takes it: the thread is running, and threading.Event().wait(1)
\* returns after a second.
NextWatch ==
  /\ \/ after_batch
     \/ start_watch
     \/ stop_watch_set
     \/ stop_watch_joined
     \/ \E w \in WatchIds :
          \/ W_Head(w)
          \/ W_TryAcquire(w)
          \/ W_EnterRunOnce(w)
          \/ W_LeaveRunOnce(w)
          \/ W_FinallyRelease(w)
          \/ W_FinallyAfter(w)
          \/ W_Sleep(w)
  /\ UNCHANGED fsVars

W_Wakes(w) == (W_Sleep(w) \/ W_Head(w)) /\ UNCHANGED fsVars

SpecWatch == Init /\ [][NextWatch]_vars /\ \A w \in WatchIds : WF_vars(W_Wakes(w))

\* SpecWorkers: the periodic watch alone, with one thread identity more than
\* WatchIds: the worker stop_watch gave up waiting for, and those start_watch
\* starts after it.
WorkerIds == 1..(MaxWatch + 1)

InitWorkers ==
  /\ run_lock = FALSE
  /\ run_in_progress = FALSE
  /\ run_error_notified = FALSE
  /\ scan_plotter_disabled = FALSE
  /\ after_q = 0
  /\ main_pc = "idle"
  /\ mpc = [t \in ManualIds |-> "dead"]
  /\ wpc = [w \in WorkerIds |-> "dead"]
  /\ wstop = [w \in WorkerIds |-> FALSE]
  /\ wint = [w \in WorkerIds |-> 1]
  /\ wticks = [w \in WorkerIds |-> 0]
  /\ watch_thread = 0
  /\ watch_stop_event = 0
  /\ InitFs

\* start_watch, on the Tk main thread.
start_watch_again == start_watch_among(WorkerIds)

NextWorkers ==
  /\ \/ after_batch
     \/ start_watch_again
     \/ stop_watch_set
     \/ stop_watch_joined
     \/ \E w \in WorkerIds :
          \/ W_Head(w)
          \/ W_TryAcquire(w)
          \/ W_EnterRunOnce(w)
          \/ W_LeaveRunOnce(w)
          \/ W_FinallyRelease(w)
          \/ W_FinallyAfter(w)
          \/ W_Sleep(w)
  /\ UNCHANGED fsVars

SpecWorkers == InitWorkers /\ [][NextWorkers]_vars

(***************************************************************************)
(* Claims                                                                  *)
(***************************************************************************)
RunOnceThreads == ManualRunning \cup {w + MaxManual : w \in WatchRunning}

\* C1: at most one execution of run_once is in progress at any time, whatever the
\* interleaving of manual triggers, scheduled triggers and watch ticks.
C1_OneRunOnceAtATime == Cardinality(RunOnceThreads) <= 1

\* C2: a trigger that fails to acquire the run lock leaves it held by the running
\* pass: while a pass is inside run_once the lock it acquired stays acquired.
C2_LockHeldWhilePassRuns == RunOnceThreads # {} => run_lock

(***************************************************************************)
(* The archive, by (doc_no, sheet) and measurement group                   *)
(***************************************************************************)
SameSheetGroup(a, b) ==
  /\ map_location(a).dir_tif_loc = map_location(b).dir_tif_loc
  /\ docno_from_match(a) = docno_from_match(b)
  /\ a.sheet = b.sheet
  /\ new_group(a) = new_group(b)

GroupOf(arch, a) == {b \in Files(arch) : BASE_NAME(b) /\ SameSheetGroup(a, b)}

\* The events the last call of _process_candidate recorded.
EventsOf(l) == l.ev.pre \cup l.ev.legacy \cup l.ev.same \cup l.ev.other \cup l.ev.final

\* The candidate a step processes: it is in DIR_HPLOTTER and the step does something.
Processing(n) == At(plotter, n) # 0 /\ narrived' = narrived /\ (fs' # fs \/ last' # last)

\* C3: from an empty archive, for every (doc_no, sheet) and measurement group the
\* archive holds at most one file whose revision is the maximum revision of the group.
C3_OneFileAtGroupMaxRevision ==
  \A a \in Files(archive) :
    \A b \in GroupOf(archive, a) :
      (a.rev = max_rev(GroupOf(archive, a)) /\ b.rev = a.rev) => a = b

\* C4: when the candidates are processed and every move succeeded, no archive entry
\* is left whose revision is below the maximum revision of its measurement group.
C4_NoEntryBelowGroupMaxRevision ==
  Files(plotter) = {} =>
    \A a \in Files(archive) : a.rev = max_rev(GroupOf(archive, a))

\* C5: a name the historical tree holds keeps its content; a superseded archive entry
\* whose historical destination holds its name is left out of the historical tree,
\* moved to the reject directory and recorded as anomaly 'Presente in Storico'.
C5_HistoricalWriteOnce ==
  [][/\ \A a \in Names : At(storico, a) # 0 => At(storico', a) = At(storico, a)
     /\ \A n \in Names :
          (Processing(n) /\ At(archive', n) = At(plotter, n)) =>
            \A e \in list_nonstandard_same_doc(archive, n)
                       \cup to_storico_same(archive, n) \cup to_storico_other(archive, n) :
              At(storico, e) # 0 =>
                /\ At(archive', e) = 0
                /\ At(error_dir', e) = At(archive, e)
                /\ Anomaly(e, "Presente in Storico", {}) \in EventsOf(last')]_vars

C5_Refused ==
  \E e \in Names :
    /\ Anomaly(e, "Presente in Storico", {}) \in EventsOf(last)
    /\ At(error_dir, e) = OldContent
    /\ At(storico, e) = OldStorico
    /\ At(archive, e) = 0

\* C6: an accepted plotter file has, when its processing returns, a copy in PLM_DIR
\* under its name and a sidecar <stem>.DESEDI there.
C6_AcceptedHasPlmCopyAndSidecar ==
  last.out = "ACCEPTED" => \A n \in last.name : At(plm, n) = last.id /\ At(plm, DESEDI(n)) # 0

\* C8: a candidate processed without an I/O exception ends in exactly one of the
\* archive, the reject directory and the duplicate directory, and is gone from
\* DIR_HPLOTTER.
C8_OneTerminalPlace ==
  [][\A n \in Names :
       Processing(n) =>
         /\ At(plotter', n) = 0
         /\ Cardinality({d \in {ARCHIVIO_DISEGNI, ERROR_DIR, PARI_REV_DIR} :
                           At(fs'[d], n) = At(plotter, n)}) = 1]_vars

C8_EachPlaceTaken ==
  /\ Files(plotter) = {}
  /\ Files(archive) # {}
  /\ Files(error_dir) # {}
  /\ \E n \in last.name : last.out = "DUPLICATE" /\ At(pari_rev, n) = last.id

\* C9: a candidate that does not enter the archive, rejected or duplicate, changes
\* nothing in the archive, the historical tree and PLM_DIR; these change only in a
\* step that accepts a candidate.
C9_OnlyAcceptedChangesArchive ==
  [][/\ \A n \in Names :
          (Processing(n) /\ At(archive', n) # At(plotter, n)) =>
            /\ archive' = archive
            /\ storico' = storico
            /\ plm' = plm
     /\ (storico' # storico \/ plm' # plm) =>
          \E n \in Names : Processing(n) /\ At(archive', n) = At(plotter, n)]_vars

C9_RejectedBesideArchived ==
  /\ last.out \in {"REJECTED", "DUPLICATE"}
  /\ Files(archive) # {}
  /\ Files(storico) # {}
  /\ Files(plm) # {}
  /\ \E n \in last.name : At(error_dir, n) = last.id \/ At(pari_rev, n) = last.id

SameDocSheet(arch, n) ==
  {b \in Files(arch) :
     /\ BASE_NAME(b)
     /\ map_location(b).dir_tif_loc = map_location(n).dir_tif_loc
     /\ docno_from_match(b) = docno_from_match(n)
     /\ b.sheet = n.sheet}
OppositeGroup(arch, n) ==
  {b \in SameDocSheet(arch, n) : b.met \in (IF n.met \in MI THEN DN ELSE MI)}
OwnGroup(arch, n) ==
  {b \in SameDocSheet(arch, n) : b.met \in (IF n.met \in MI THEN MI ELSE DN)}
OwnMetric(arch, n) == {b \in SameDocSheet(arch, n) : b.met = n.met}
RevsOf(S) == {b.rev : b \in S}
Below(n, S) == \E b \in S : n.rev < b.rev
Holders(S) == {b \in S : \A x \in S : x.rev <= b.rev}

\* The plots that pass the orientation check and the validations of the name.
ValidNames == StdNames \cup {PdfTwin}
Upright(n) == At(plotter, n) > 0

\* The step rejects candidate n: it goes to ERROR_DIR, nothing else moves, and the
\* one record is the anomaly `text` with reference ref.
RejectedWith(n, text, ref) ==
  /\ fs' = move_to(fs, DIR_HPLOTTER, n, ERROR_DIR)
  /\ last'.out = "REJECTED"
  /\ last'.ev = [NoEvents EXCEPT !.pre = {Anomaly(n, text, {ref})}]

\* C11, as stated: a candidate whose revision is below the maximum revision of the
\* opposite measurement group is moved to the reject directory with a reference to
\* an archive entry holding that maximum.
C11_BelowOppositeGroupToReject ==
  [][\A n \in ValidNames :
       (Processing(n) /\ Upright(n) /\ Below(n, OppositeGroup(archive, n))) =>
         \E a \in Holders(OppositeGroup(archive, n)) :
           RejectedWith(n, "Revisione Precendente", a)]_vars

\* C11, amended: a candidate whose revision is below the maximum revision of the
\* opposite measurement group is never accepted; when it is upright, validly named
\* and its file name is not in the archive (no 'Pari Revisione'), it is moved to the
\* reject directory with anomaly 'Revisione Precendente' and a reference to an
\* archive entry of the opposite group holding that maximum.
C11_BelowOppositeGroupNeverAccepted ==
  [][\A n \in PlotNames :
       (Processing(n) /\ Below(n, OppositeGroup(archive, n))) =>
         /\ last'.out # "ACCEPTED"
         /\ archive' = archive
         /\ (n \in ValidNames /\ Upright(n) /\ At(archive, n) = 0) =>
              \E a \in Holders(OppositeGroup(archive, n)) :
                RejectedWith(n, "Revisione Precendente", a)]_vars

\* a candidate was rejected for an archived higher revision of the opposite group
C11_RejectedForOppositeGroup ==
  \E n \in last.name :
    /\ last.out = "REJECTED"
    /\ At(error_dir, n) = last.id
    /\ \E a \in Holders(OppositeGroup(archive, n)) :
         /\ n.rev < a.rev
         /\ last.ev.pre = {Anomaly(n, "Revisione Precendente", {a})}

\* C12: a candidate whose revision is below the maximum revision of its own
\* measurement group is rejected: when a file is accepted its revision is greater
\* than or equal to every archived revision of its group.
C12_AcceptedIsGroupMaximum ==
  last.out = "ACCEPTED" =>
    \A n \in last.name : \A b \in OwnGroup(archive, n) : b.rev <= n.rev

\* The archived files of the opposite group at the candidate's revision.
SameRevOpposite(arch, n) == {b \in OppositeGroup(arch, n) : b.rev = n.rev}
ConflictText(n) ==
  IF new_group(n) = "MI" THEN "Conflitto Metrica (DN a pari revisione)"
  ELSE "Conflitto Metrica (MI a pari revisione)"

\* C13, as stated: a candidate of one measurement group is rejected when the archive
\* holds an entry of the other group for the same (doc_no, sheet) at the same
\* revision; the anomaly reference is that conflicting archive file and the archive
\* is unchanged.
C13_CrossGroupConflictRejected ==
  [][\A n \in ValidNames :
       (Processing(n) /\ Upright(n) /\ SameRevOpposite(archive, n) # {}) =>
         /\ fs' = move_to(fs, DIR_HPLOTTER, n, ERROR_DIR)
         /\ last'.out = "REJECTED"
         /\ \E e \in last'.ev.pre :
              e.kind = "anomaly" /\ e.name = n /\ e.ref # {}
                /\ e.ref \subseteq SameRevOpposite(archive, n)]_vars

\* C13, amended: such a candidate is never accepted and the archive is unchanged;
\* when it is upright, validly named, not a duplicate of an archived file name and
\* not below an archived revision of the opposite group or of its own metric, it is
\* rejected with 'Conflitto Metrica (DN a pari revisione)' for an M/I candidate and
\* 'Conflitto Metrica (MI a pari revisione)' for a D/N candidate, the reference
\* being a conflicting archive file.
C13_CrossGroupConflictNeverAccepted ==
  [][\A n \in PlotNames :
       (Processing(n) /\ SameRevOpposite(archive, n) # {}) =>
         /\ last'.out # "ACCEPTED"
         /\ archive' = archive
         /\ (/\ n \in ValidNames /\ Upright(n) /\ At(archive, n) = 0
             /\ ~Below(n, OppositeGroup(archive, n))
             /\ ~Below(n, OwnMetric(archive, n))) =>
              \E a \in SameRevOpposite(archive, n) :
                RejectedWith(n, ConflictText(n), a)]_vars

\* an M/I candidate was rejected for an archived D/N file at its revision
C13_RejectedForCrossGroupConflict ==
  \E n \in last.name :
    /\ last.out = "REJECTED"
    /\ new_group(n) = "MI"
    /\ At(error_dir, n) = last.id
    /\ \E a \in SameRevOpposite(archive, n) :
         last.ev.pre = {Anomaly(n, "Conflitto Metrica (DN a pari revisione)", {a})}

\* The archived files of the candidate's group at its revision, of the other metric.
SameRevOtherMetric(arch, n) == {b \in OwnGroup(arch, n) : b.rev = n.rev /\ b.met # n.met}

\* The step accepts candidate n into the archive.
Accepted(n) == last'.out = "ACCEPTED" /\ At(archive', n) = At(plotter, n)

\* C14, as stated: an M or I candidate arriving when the archive holds the other M/I
\* metric at the same revision is accepted, with a 'Metrica Diversa' record naming
\* the archived file, which stays; a D or N candidate arriving when the archive
\* holds the other D/N metric at the same revision is not accepted.
C14_SameGroupOtherMetric ==
  [][\A n \in ValidNames :
       (Processing(n) /\ Upright(n) /\ SameRevOtherMetric(archive, n) # {}) =>
         IF n.met \in MI
           THEN /\ Accepted(n)
                /\ \E a \in SameRevOtherMetric(archive, n) :
                     Processed(n, "Metrica Diversa", {a}) \in last'.ev.pre
                /\ \A a \in SameRevOtherMetric(archive, n) : At(archive', a) = At(archive, a)
           ELSE last'.out # "ACCEPTED" /\ archive' = archive]_vars

\* C14, amended: the M/I candidate is accepted, with the 'Metrica Diversa' record,
\* when no earlier rule rejects it: it is upright, validly named, not a duplicate,
\* not below an archived revision of the opposite group or of its own metric, and
\* no D/N file of its revision is archived. The D/N candidate is never accepted, and
\* on the same conditions (no M/I file of its revision archived) the anomaly is
\* 'Conflitto Metrica (D/N a pari revisione)' with the archived file as reference.
C14_MetricaDiversaAsymmetry ==
  [][\A n \in ValidNames :
       (Processing(n) /\ Upright(n) /\ SameRevOtherMetric(archive, n) # {}) =>
         LET reached == /\ At(archive, n) = 0
                        /\ ~Below(n, OppositeGroup(archive, n))
                        /\ ~Below(n, OwnMetric(archive, n))
                        /\ SameRevOpposite(archive, n) = {}
         IN IF n.met \in MI
              THEN reached =>
                     /\ Accepted(n)
                     /\ \E a \in SameRevOtherMetric(archive, n) :
                          last'.ev.pre = {Processed(n, "Metrica Diversa", {a})}
                     /\ \A a \in SameRevOtherMetric(archive, n) :
                          At(archive', a) = At(archive, a)
              ELSE /\ last'.out # "ACCEPTED"
                   /\ archive' = archive
                   /\ reached =>
                        \E a \in SameRevOtherMetric(archive, n) :
                          RejectedWith(n, "Conflitto Metrica (D/N a pari revisione)", a)]_vars

\* an M/I candidate was accepted beside the archived file of the other M/I metric
C14_AcceptedWithMetricaDiversa ==
  \E n \in last.name :
    /\ last.out = "ACCEPTED"
    /\ At(archive, n) = last.id
    /\ \E a \in SameRevOtherMetric(archive, n) :
         /\ At(archive, a) = OldContent
         /\ last.ev.pre = {Processed(n, "Metrica Diversa", {a})}

\* Archive entry b was superseded in this step: it left the archive for the
\* historical tree, or for the reject directory when the historical tree held its name.
Superseded(b) ==
  /\ At(archive', b) = 0
  /\ IF At(storico, b) = 0
       THEN At(storico', b) = At(archive, b)
       ELSE At(storico', b) = At(storico, b) /\ At(error_dir', b) = At(archive, b)

\* C15, as stated: when a candidate of revision r is accepted and every move
\* succeeds, every archive entry of its (doc_no, sheet) with its metric letter and a
\* revision below r has left the archive for the historical tree (or the reject
\* directory when the historical name existed), and the new file is in the archive.
C15_LowerRevisionsSuperseded ==
  [][\A n \in ValidNames :
       (Processing(n) /\ last'.out = "ACCEPTED") =>
         /\ At(archive', n) = At(plotter, n)
         /\ \A b \in OwnMetric(archive, n) : b.rev < n.rev => Superseded(b)]_vars

\* C15, amended: the same, when no archive entry of that metric letter is at
\* revision r itself (the entries are moved only if own_max is None or r > own_max).
C15_SupersedeAboveOwnMax ==
  [][\A n \in ValidNames :
       (Processing(n) /\ last'.out = "ACCEPTED") =>
         /\ At(archive', n) = At(plotter, n)
         /\ (\A b \in OwnMetric(archive, n) : b.rev # n.rev) =>
              \A b \in OwnMetric(archive, n) : b.rev < n.rev => Superseded(b)]_vars

\* a lower revision of the accepted file's metric went to the historical tree
C15_OldRevisionInHistorical ==
  \E n \in last.name :
    /\ last.out = "ACCEPTED"
    /\ At(archive, n) = last.id
    /\ \E b \in ValidNames :
         /\ docno_from_match(b) = docno_from_match(n) /\ b.sheet = n.sheet
         /\ b.met = n.met /\ b.rev < n.rev
         /\ At(archive, b) = 0
         /\ At(storico, b) = OldContent
         /\ Processed(n, "Rev superata", {b}) \in last.ev.same

\* C16: no rollback after acceptance. When the PLM copy or the sidecar write of an
\* accepted candidate fails, the candidate stays in the archive, the superseded
\* entries stay in the historical tree, and the 'Archiviato' record is emitted.
C16_NoRollbackAfterAcceptance ==
  [][\A n \in ValidNames :
       (/\ Processing(n) /\ last'.out = "ACCEPTED"
        /\ (At(plm', n) # At(plotter, n) \/ At(plm', DESEDI(n)) = 0)) =>
         /\ At(plotter', n) = 0
         /\ At(archive', n) = At(plotter, n)
         /\ \A b \in to_storico_same(archive, n) \cup to_storico_other(archive, n) :
              Superseded(b)
         /\ last'.ev.final = {Processed(n, "Archiviato", {})}
         /\ \A b \in to_storico_same(archive, n) \cup to_storico_other(archive, n) :
              At(storico, b) = 0 =>
                Processed(n, "Rev superata", {b}) \in last'.ev.same \cup last'.ev.other]_vars

\* the PLM copy of an accepted file failed after a historical move was made
C16_PlmCopyFailedAfterMoves ==
  \E n \in last.name :
    /\ last.out = "ACCEPTED" /\ last.flt = "plm"
    /\ At(plm, n) = 0
    /\ At(archive, n) = last.id
    /\ Processed(n, "Archiviato", {}) \in last.ev.final
    /\ \E b \in Files(storico) :
         Processed(n, "Rev superata", {b}) \in last.ev.same \cup last.ev.other

\* C17: if the PLM copy of an accepted file failed during one pass, later passes of
\* run_once, the failure being over, bring the PLM copy and the sidecar into being.
C17_ReplayCompletes ==
  \A n \in ValidNames :
    (last.name = {n} /\ last.out = "ACCEPTED" /\ last.flt = "plm")
      ~> (At(plm, n) # 0 /\ At(plm, DESEDI(n)) # 0)

\* C18: while a run_once is executing in the GUI orchestrator, the plotter-scan flag
\* _scan_plotter_disabled is true; it is re-enabled only after that pass has finished.
C18_ScansDisabledWhilePassRuns == RunOnceThreads # {} => scan_plotter_disabled

\* The step is a call of heng_loading in which no move raises.
HengIngest ==
  \E files \in Enumerations(Files(fs[DIR_HENGELO])) : fs' = heng_loading(fs, files, {}, {})

\* The names that leave directory d in the step.
Left(d) == Files(fs[d]) \ Files(fs'[d])

\* C19: within one pass of run_once the plotter candidates are processed one after
\* another, each call complete in its step; the ISS ingest starts only when no
\* candidate is left, the FIV ingest follows it, the HENG ingest follows that, and
\* the pass returns from the HENG ingest.
C19_CandidatesThenIssFivHeng ==
  [][/\ Left(DIR_HPLOTTER) # {} =>
          /\ rpc = "loop" /\ rpc' = "loop"
          /\ \E n \in candidates :
               /\ Left(DIR_HPLOTTER) = {n}
               /\ candidates' = candidates \ {n}
               /\ last'.name = {n}
               /\ last'.out \in {"ACCEPTED", "REJECTED", "DUPLICATE"}
     /\ Left(DIR_ISS) # {} => rpc = "loop" /\ candidates = {} /\ rpc' = "fiv"
     /\ Left(DIR_FIV_LOADING) # {} => rpc = "fiv" /\ rpc' = "heng"
     /\ Left(DIR_HENGELO) # {} => rpc = "heng" /\ rpc' = "idle"
     /\ rpc = "loop" /\ rpc' # "loop" => candidates = {} /\ rpc' = "fiv"
     /\ rpc = "fiv" /\ rpc' # "fiv" => rpc' = "heng"
     /\ rpc # "idle" /\ rpc' = "idle" => rpc = "heng" /\ HengIngest
    ]_vars

\* C20: setting the stop event leaves a worker that is inside run_once inside it,
\* and a pass ends only by run_once returning or raising; a worker whose stop event
\* is set while it sleeps between passes (or stands at its loop test) starts no
\* further pass, and it exits.
C20_WatchCancellation ==
  /\ [][\A w \in WatchIds :
          /\ wpc[w] = "run" => wpc'[w] \in {"run", "fin_release"}
          /\ wpc[w] = "run" /\ wstop'[w] # wstop[w] => wpc'[w] = "run"
          /\ wstop[w] /\ wpc[w] \in {"sleep", "head"}
                => wstop'[w] /\ wpc'[w] \in {"sleep", "head", "dead"}
       ]_vars
  /\ \A w \in WatchIds : (wstop[w] /\ wpc[w] = "sleep") ~> (wpc[w] = "dead")

\* A worker has exited with its stop event set, out of a sleep that had time left.
C20_SleepInterruptedWorkerExited ==
  \E w \in WatchIds : wpc[w] = "dead" /\ wstop[w] /\ wticks[w] > 0

\* C21: a call of _process_candidate in which a filesystem operation raises ends
\* at the candidate boundary: the loop is still at its place with the other
\* candidates left, each of them gets its call, the ISS ingest follows the last
\* candidate, and the pass returns from the HENG ingest.
C21_FailureIsolation ==
  /\ [][/\ (rpc = "loop" /\ candidates' # candidates /\ last'.out = "FAILED")
              => (rpc' = "loop" /\ candidates' = candidates \ last'.name /\ fs' = fs)
        /\ (rpc = "loop" /\ rpc' # "loop") => (candidates = {} /\ fs' = iss_loading(fs))
        /\ (rpc = "fiv" /\ rpc' # "fiv") => fs' = fiv_loading(fs)
        /\ (rpc # "idle" /\ rpc' = "idle") => (rpc = "heng" /\ HengIngest)
       ]_vars
  /\ \A n \in {FirstName, BadRegex} :
       (rpc = "loop" /\ n \in candidates) ~> (n \notin candidates /\ last.name = {n})
  /\ (rpc = "loop" /\ last.out = "FAILED") ~> (rpc = "idle")

\* In one pass the call for FirstName raised (the file is still in DIR_HPLOTTER,
\* scanned and no longer a candidate) and the call for BadRegex was made after it.
C21_LaterCandidateProcessed ==
  /\ rpc = "loop" /\ clean /\ candidates = {}
  /\ FirstName \in Files(plotter)
  /\ last.name = {BadRegex} /\ last.out = "REJECTED"
  /\ BadRegex \in Files(error_dir)

IsDrawing(n) == n.ext \in {"pdf", "tif"}
IsSidecar(n) == n.ext = "desedi"
heng == fs[DIR_HENGELO]

\* C22 (as stated): in a call of heng_loading, of the entries of one stem either
\* none leaves DIR_HENGELO, or a drawing and a sidecar of that stem both arrive in
\* PLM_DIR.
C22_HengCompletePairsOnly ==
  [][\A k \in {stem_key(n) : n \in Files(heng)} :
       LET M == {n \in Left(DIR_HENGELO) : stem_key(n) = k}
       IN \/ M = {}
          \/ /\ \E d \in M : IsDrawing(d) /\ d \in Files(fs'[PLM_DIR])
             /\ \E e \in M : IsSidecar(e) /\ e \in Files(fs'[PLM_DIR])
    ]_vars

\* C22 (amended): an entry that leaves DIR_HENGELO arrives in PLM_DIR; a sidecar
\* leaves only with a drawing of its stem; a drawing leaves only if a sidecar of
\* its stem was beside it, and with that sidecar unless the sidecar's move raised.
C22_HengPairsWithoutRollback ==
  [][\A n \in Left(DIR_HENGELO) :
       /\ At(fs'[PLM_DIR], n) = At(heng, n)
       /\ IsSidecar(n) =>
            \E d \in Left(DIR_HENGELO) : IsDrawing(d) /\ stem_key(d) = stem_key(n)
       /\ IsDrawing(n) =>
            /\ \E e \in Files(heng) : IsSidecar(e) /\ stem_key(e) = stem_key(n)
            /\ last'.flt # "edi" =>
                 \E e \in Left(DIR_HENGELO) : IsSidecar(e) /\ stem_key(e) = stem_key(n)
    ]_vars

\* A call in which the sidecar's move raised: the drawing is in PLM_DIR, its sidecar
\* is still in DIR_HENGELO.
C22_DrawingForwardedAlone ==
  /\ last.out = "HENG" /\ last.flt = "edi"
  /\ FirstName \in Files(plm) /\ DESEDI(FirstName) \notin Files(plm)
  /\ DESEDI(FirstName) \in Files(heng)

\* The entries of DIR_HENGELO of stem k that pass test P.
HengOfStem(k, P(_)) == {n \in Files(heng) : stem_key(n) = k /\ P(n)}

\* C23: when DIR_HENGELO holds two distinct drawings, or two distinct sidecars,
\* of one case-insensitive stem, a call of heng_loading moves no entry of that
\* stem, in whatever order the entries are enumerated.
C23_AmbiguousStemNotMoved ==
  [][\A k \in {stem_key(n) : n \in Files(heng)} :
       (Cardinality(HengOfStem(k, IsDrawing)) >= 2 \/ Cardinality(HengOfStem(k, IsSidecar)) >= 2)
         => \A n \in Left(DIR_HENGELO) : stem_key(n) # k
    ]_vars

iss_dir == fs[DIR_ISS]

\* C24: a call of iss_loading moves every PDF of DIR_ISS whose name has one of the
\* three shapes to PLM_DIR, where its sidecar then is, records it under the first
\* shape that matches, and appends one line for it to SwarkyISS.log; a PDF of no
\* shape stays, with the anomaly 'Nome ISS Errato'; nothing else is touched.
C24_IssIngest ==
  [][last'.out = "ISS" =>
       LET pdfs == {n \in Files(iss_dir) : n.ext = "pdf"}
           good == {n \in pdfs : n.iss1 \/ n.iss2 \/ n.re}
           kind(n) == IF n.iss1 THEN "ISS_CLASSIC" ELSE IF n.iss2 THEN "ISS_MARK" ELSE "ISS_STD"
       IN /\ \A n \in good :
               /\ n \notin Files(fs'[DIR_ISS])
               /\ At(fs'[PLM_DIR], n) = At(iss_dir, n)
               /\ DESEDI(n) \in Files(fs'[PLM_DIR])
               /\ Processed(n, kind(n), {}) \in last'.ev.final
          /\ \A n \in pdfs \ good :
               /\ At(fs'[DIR_ISS], n) = At(iss_dir, n)
               /\ n \notin Files(fs'[PLM_DIR])
               /\ DESEDI(n) \notin Files(fs'[PLM_DIR])
               /\ Anomaly(n, "Nome ISS Errato", {}) \in last'.ev.final
          /\ \A n \in Files(iss_dir) \ (pdfs \cup {IssLog}) :
               At(fs'[DIR_ISS], n) = At(iss_dir, n)
          /\ At(fs'[DIR_ISS], IssLog) = At(iss_dir, IssLog) + Cardinality(good)
          /\ Cardinality(last'.ev.final) = Cardinality(pdfs)
    ]_vars

\* A call has moved a PDF of each shape, left the PDF of none, and appended three
\* lines to a log that had one.
C24_ThreeShapesIngested ==
  /\ last.out = "ISS"
  /\ \A n \in {IssClassic, IssMark, IssStd} :
       n \in Files(plm) /\ DESEDI(n) \in Files(plm) /\ n \notin Files(iss_dir)
  /\ IssBad \in Files(iss_dir)
  /\ Anomaly(IssBad, "Nome ISS Errato", {}) \in last.ev.final
  /\ At(iss_dir, IssLog) = 4

fiv_dir == fs[DIR_FIV_LOADING]

\* C25: at every point of fiv_loading a drawing that came to PLM_DIR from
\* DIR_FIV_LOADING has its sidecar there; an entry whose name BASE_NAME does not
\* match stays where it is, and neither it nor a sidecar for it comes to PLM_DIR.
C25_FivSidecarBeforeDrawing ==
  /\ [](\A n \in Files(plm) : plm[n] = FivContent => DESEDI(n) \in Files(plm))
  /\ [](\A n \in FivNames : ~BASE_NAME(n) => n \notin Files(plm) /\ DESEDI(n) \notin Files(plm))
  /\ [][\A n \in Files(fiv_dir) :
          /\ ~BASE_NAME(n) => At(fs'[DIR_FIV_LOADING], n) = At(fiv_dir, n)
          /\ n \notin Files(fs'[DIR_FIV_LOADING]) => DESEDI(n) \in Files(plm)
       ]_vars

\* Between the two steps: the sidecar of the entry in hand is written, the drawing
\* is still in DIR_FIV_LOADING; an entry of a wrong name has been turned away.
C25_SidecarWrittenDrawingNotYetMoved ==
  /\ rpc = "fiv_move" /\ last.name = {PdfTwin}
  /\ At(plm, DESEDI(PdfTwin)) = EdiBody /\ PdfTwin \notin Files(plm)
  /\ PdfTwin \in Files(fiv_dir)
  /\ BadRegex \in Files(fiv_dir) /\ BadRegex \notin candidates

\* C26: write_edi, of either module, called for a name whose sidecar exists leaves
\* every directory as it is, and called for any name it writes at most that one
\* sidecar; a second call for the same name changes nothing after the first.
C26_SidecarWriteOnce ==
  /\ [][\A e \in Files(plm) : At(fs'[PLM_DIR], e) = plm[e]]_vars
  /\ [](\A n \in EdiNames :
         /\ DESEDI(n) \in Files(plm) =>
              write_edi(fs, n, PLM_DIR) = fs /\ io_write_edi(fs, n, PLM_DIR) = fs
         /\ write_edi(write_edi(fs, n, PLM_DIR), n, PLM_DIR) = write_edi(fs, n, PLM_DIR)
         /\ io_write_edi(io_write_edi(fs, n, PLM_DIR), n, PLM_DIR) = io_write_edi(fs, n, PLM_DIR)
         /\ At(write_edi(fs, n, PLM_DIR)[PLM_DIR], DESEDI(n)) # 0)

\* The last call was made for a name whose sidecar was an older one: it is still
\* the older one, beside a sidecar another call wrote.
C26_OlderSidecarKept ==
  /\ last.out \in {"EDI", "EDI_IO"} /\ last.id = OldContent
  /\ \A n \in last.name : At(plm, DESEDI(n)) = OldContent
  /\ \E n \in EdiNames : At(plm, DESEDI(n)) = EdiBody

\* C27: a sidecar that is in PLM_DIR keeps its content in every later step of
\* every pass, whichever ingest takes the step.
C27_SidecarNeverReplaced ==
  [][\A e \in Files(plm) : IsSidecar(e) => At(fs'[PLM_DIR], e) = plm[e]]_vars


\* C28: map_location resolves the key (location letter, first digit of the
\* document number) as the exact row, then the row of the location letter, then
\* the row of the digit, then the default; a name with a known location letter
\* and first digit 4 or 5 gets the row of its letter, not the row of the digit.
C28_MapLocationOrder ==
  last.out = "LOC" =>
    \A n \in last.name :
      LET l == n.loc
          d == n.doc[1]
          row == IF LOCATION_MAP(<<l, d>>) # <<>> THEN LOCATION_MAP(<<l, d>>)
                 ELSE IF LOCATION_MAP(<<l, "*">>) # <<>> THEN LOCATION_MAP(<<l, "*">>)
                 ELSE IF LOCATION_MAP(<<"*", d>>) # <<>> THEN LOCATION_MAP(<<"*", d>>)
                 ELSE DEFAULT_LOCATION
      IN /\ last.loc.folder = row[1]
         /\ last.loc.log_name = row[2]
         /\ last.loc.subloc = row[3]
         /\ (LOCATION_MAP(<<l, "*">>) # <<>> /\ d \in {"4", "5"})
              => last.loc.folder = LOCATION_MAP(<<l, "*">>)[1]

\* C28, the part swarky_logic.py keeps: the map_location gui.py imports
\* resolves in the order the claim states.
C28_LogicMapLocationOrder ==
  (last.out = "LOC" /\ last.via = "swarky_logic") =>
    \A n \in last.name :
      (LOCATION_MAP(<<n.loc, "*">>) # <<>>)
        => last.loc.folder = LOCATION_MAP(<<n.loc, "*">>)[1]


\* C29: with ACCEPT_PDF false a PDF in DIR_HPLOTTER is ignored by every pass of
\* run_once: it is not a candidate, no call of _process_candidate names it in a
\* record, it stays in DIR_HPLOTTER with its content and comes to no other folder.
C29_PdfIgnored ==
  /\ [](\A n \in candidates : n.ext # "pdf")
  /\ [](\A n \in last.name : n.ext # "pdf")
  /\ [](\A k \in DOMAIN last.ev : \A r \in last.ev[k] : r.name.ext # "pdf")
  /\ [](\A d \in Dirs \ {DIR_HPLOTTER} : \A n \in Files(fs[d]) :
          n.ext = "pdf" => n \notin NoPdfPlots)
  /\ [][\A n \in Files(plotter) :
          n.ext = "pdf" => At(fs'[DIR_HPLOTTER], n) = plotter[n]]_vars

\* A pass has gone over a DIR_HPLOTTER holding a PDF and a TIFF: the TIFF is
\* archived, the PDF is where it was, and the pass is over.
C29_PassLeftPdf ==
  /\ rpc = "idle"
  /\ settled
  /\ PdfTwin \in Files(plotter)
  /\ IssBad \in Files(plotter)
  /\ FirstName \in Files(archive)
  /\ last.name = {FirstName}


\* C30: move_to_storico_safe of swarky_io.py, called by gui.py's _process_candidate
\* for a superseded archive entry whose name the historical tree holds, refuses:
\* the historical file keeps its content and the call returns (False, 0), so that
\* no 'Rev superata' record is written for that entry.
C30_IoStoricoRefusesExisting ==
  [][/\ \A a \in Names : At(storico, a) # 0 => At(storico', a) = At(storico, a)
     /\ \A n \in Names :
          (Processing(n) /\ At(archive', n) = At(plotter, n)) =>
            \A e \in to_storico_same(archive, n) \cup to_storico_other(archive, n) :
              At(storico, e) # 0 =>
                Processed(n, "Rev superata", {e}) \notin EventsOf(last')]_vars


\* The reason the first failing check of the order orientation, name grammar,
\* format letter, location letter, metric letter gives; "" when none fails.
FirstFailingCheck(n, c) ==
  IF n.ext # "pdf" /\ c < 0 THEN "Immagine Girata"
  ELSE IF ~(n.re /\ n.ext \in {"tif", "pdf"}) THEN "Nome File Errato"
  ELSE IF n.fmt \notin {"A", "B", "C", "D", "E"} THEN "Formato Errato"
  ELSE IF n.loc \notin {"M", "K", "F", "T", "E", "S", "N", "P"} THEN "Location Errata"
  ELSE IF n.met \notin {"M", "I", "D", "N"} THEN "Metrica Errata"
  ELSE ""

\* C31: the orientation check comes before the name grammar, which comes before
\* the format, location and metric letter checks in that order; the first failing
\* check alone gives the single anomaly record, the file goes to the reject
\* directory, and what the archive holds (a file of the same name too) neither
\* changes the outcome nor is changed.
C31_ValidationPrecedence ==
  [][\A n \in LetterNames :
       (Processing(n) /\ FirstFailingCheck(n, At(plotter, n)) # "") =>
         /\ last'.out = "REJECTED"
         /\ EventsOf(last') = {Anomaly(n, FirstFailingCheck(n, At(plotter, n)), {})}
         /\ At(error_dir', n) = At(plotter, n)
         /\ At(plotter', n) = 0
         /\ archive' = archive
         /\ storico' = storico
         /\ pari_rev' = pari_rev
         /\ plm' = plm]_vars

\* A turned plot whose name misses BASE_NAME and a plot with wrong format,
\* location and metric letters whose name the archive holds were rejected.
C31_SeveralChecksFail ==
  \E n \in Files(error_dir) :
    /\ last.name = {n}
    /\ \/ /\ error_dir[n] < 0
          /\ ~n.re
          /\ EventsOf(last) = {Anomaly(n, "Immagine Girata", {})}
       \/ /\ n.re /\ n.fmt = "Z" /\ n.loc = "X" /\ n.met = "X"
          /\ n \in Files(archive)
          /\ EventsOf(last) = {Anomaly(n, "Formato Errato", {})}


\* The files of the archive directory of n whose name starts with the docno of n,
\* ends in .tif or .pdf and misses the standard grammar.
LegacyOf(n) ==
  {a \in Files(archive) : /\ a.fmt = n.fmt /\ a.loc = n.loc /\ a.doc = n.doc
                          /\ a.ext \in {"tif", "pdf"}
                          /\ ~a.re}

C32_LegacyKept ==
  /\ last.out \in {"REJECTED", "DUPLICATE"}
  /\ \E n \in last.name : n.doc = BadRegex.doc /\ n.re
  /\ At(archive, BadRegex) = OldContent


\* The records of a call in the order of their emission: those before the
\* acceptance, then those of the legacy files, of the superseded entries of the
\* candidate's metric, of those of the other group, and the closing one.
BeforeFinal(l) == l.ev.pre \cup l.ev.legacy \cup l.ev.same \cup l.ev.other

\* C33: an accepted candidate has exactly one 'Archiviato' processed record, its
\* last record; before it, one 'Rev superata' record for each superseded entry
\* the call moved to the historical tree, and none for another entry; a rejected
\* or duplicate candidate has exactly one anomaly record and no processed record.
C33_EventOrder ==
  [][\A n \in Names :
       Processing(n) =>
         LET superseded == {e \in Files(archive) :
                              /\ e.re /\ e.doc = n.doc /\ e.sheet = n.sheet /\ e.rev < n.rev
                              /\ At(storico, e) = 0
                              /\ At(storico', e) = archive[e]
                              /\ At(archive', e) = 0}
             archiviato == [kind |-> "processed", name |-> n, text |-> "Archiviato", ref |-> {}]
             superata(e) == [kind |-> "processed", name |-> n, text |-> "Rev superata",
                             ref |-> {e}]
         IN IF last'.out = "ACCEPTED"
              THEN /\ last'.ev.final = {archiviato}
                   /\ \A r \in BeforeFinal(last') : r.text # "Archiviato"
                   /\ {r \in EventsOf(last') : r.text = "Rev superata"}
                        = {superata(e) : e \in superseded}
                   /\ {r \in last'.ev.final : r.text = "Rev superata"} = {}
              ELSE /\ Cardinality(EventsOf(last')) = 1
                   /\ \A r \in EventsOf(last') : r.kind = "anomaly" /\ r.name = n]_vars

\* The newer revision was accepted over an archived older one: two records,
\* 'Rev superata' for the older file, then 'Archiviato'.
C33_SupersededThenArchived ==
  /\ last.out = "ACCEPTED"
  /\ \E n \in last.name, e \in Files(storico) :
       /\ e.rev < n.rev
       /\ storico[e] = OldContent
       /\ BeforeFinal(last) = {[kind |-> "processed", name |-> n, text |-> "Rev superata",
                                ref |-> {e}]}
       /\ last.ev.final = {[kind |-> "processed", name |-> n, text |-> "Archiviato",
                            ref |-> {}]}


\* Two standard names of one archive directory, docno and sheet.
SameSheet(a, b) ==
  /\ BASE_NAME(a) /\ BASE_NAME(b)
  /\ a.fmt = b.fmt /\ a.loc = b.loc /\ a.doc = b.doc
  /\ a.sheet = b.sheet

\* C34: from an empty archive the archive never holds an MI file and a DN file
\* of one (docno, sheet): an accepted candidate leaves no archive entry of the
\* opposite group for its sheet.
C34_NoMixedGroups ==
  /\ [](\A a, b \in Files(archive) : SameSheet(a, b) => ((a.met \in MI) <=> (b.met \in MI)))
  /\ [][\A n \in Names :
          (Processing(n) /\ last'.out = "ACCEPTED") =>
            \A e \in Files(archive) :
              (SameSheet(e, n) /\ ((e.met \in MI) # (n.met \in MI))) => At(archive', e) = 0]_vars

\* A file of one group was accepted over an archived file of the other group,
\* which is in the historical tree now.
C34_OppositeGroupDemoted ==
  /\ last.out = "ACCEPTED"
  /\ \E n \in last.name, e \in Files(storico) :
       /\ SameSheet(e, n)
       /\ n.met \in MI
       /\ e.met \in DN
       /\ At(archive, n) = last.id
       /\ At(archive, e) = 0


\* C35: in gui.py's _process_candidate the PLM step, fast_copy_or_link, does not
\* take the accepted file out of the archive: when the call returns the file is
\* in the archive and in PLM_DIR, also when PLM_DIR held its name before.
C35_PlmStepKeepsArchive ==
  [][\A n \in Names :
       (Processing(n) /\ last' # last /\ last'.name = {n} /\ last'.out = "ACCEPTED") =>
         /\ At(archive', n) = At(plotter, n)
         /\ At(plm', n) = At(plotter, n)]_vars


\* The directories a file that arrived in DIR_HPLOTTER may be in.
ArrivalPlaces == {DIR_HPLOTTER, ARCHIVIO_DISEGNI, ARCHIVIO_STORICO, ERROR_DIR, PARI_REV_DIR}

\* C36: every file that arrived in DIR_HPLOTTER (the k-th arrival has content k, or
\* -k when it is turned) is present in DIR_HPLOTTER, the archive, the historical
\* tree, the reject directory or the duplicate directory; no move of the pipeline
\* replaces a file that was at its destination.
C36_ArrivalsConserved ==
  \A k \in 1..narrived :
    \E d \in ArrivalPlaces : \E n \in Files(fs[d]) : fs[d][n] \in {k, 0 - k}


\* C37: every drawing the FIV ingest delivered to PLM_DIR has a sidecar
\* <stem>.DESEDI there whose FileName is the name of the drawing and whose
\* DocumentRev and SheetNumber are its revision and sheet, also when a TIFF and a
\* PDF of one stem are both delivered.
C37_SidecarFaithful ==
  \A n \in Files(plm) :
    n.ext \in {"tif", "pdf"} =>
      /\ DESEDI(n) \in Files(plm)
      /\ plm[DESEDI(n)].FileName = n
      /\ plm[DESEDI(n)].DocumentRev = n.rev
      /\ plm[DESEDI(n)].SheetNumber = n.sheet


\* C38: at most one watch worker thread is alive at any time, whatever start_watch
\* and stop_watch calls are made, also when stop_watch returns from its join
\* while the pass of the worker is still running.
C38_OneWatchWorkerAlive ==
  Cardinality({w \in DOMAIN wpc : wpc[w] # "dead"}) <= 1

====
